---------------------------- MODULE Spec2Model ----------------------------
(***************************************************************************)
(* Model of the tldev backend: the notification-dispatch cron endpoint     *)
(* (time-slot resolver, seeded tip selector, DailyPush ledger, fan-out     *)
(* send), the tip action endpoints with their counters, and the content    *)
(* pipeline (generate, enrich, feed).                                      *)
(*                                                                         *)
(* Specifications:                                                         *)
(*   SpecSlot   - getISTDateTime / getSlotIndex walked minute by minute    *)
(*   SpecSelect - createSeed / seededRandom / index selection              *)
(*   Spec       - the send-daily-push GET handler, several invocations     *)
(*   SpecLike   - the tip action POST handlers, several requests           *)
(*   SpecPipe   - generate-tips, enrich-tip, feed and detail handlers      *)
(*   SpecLoop   - the fan-out of one dispatch invocation, many recipients  *)
(*   SpecHalf   - the half-hourly send-daily-push GET handler              *)
(*   SpecFan    - the send loop over recipients with every token kind      *)
(*   SpecWalk   - a client walking the feed page by page                   *)
(*   SpecGen    - generate-tips invocations running concurrently           *)
(*   SpecDay    - the half-hourly slot resolution over a whole IST day     *)
(*   SpecUser   - lazy user creation by three endpoints                    *)
(*   SpecDedup  - the uniqueness pass of generateTips                      *)
(*   SpecBatch  - one batch enrichment, its items as concurrent tasks      *)
(*   SpecBulk   - the admin send-push through sendBulkPushNotifications    *)
(*   SpecEnrich - single-tip enrichments running concurrently              *)
(*   SpecShift  - the half-hourly dispatch with the identity of each tip   *)
(***************************************************************************)
EXTENDS Integers, Sequences, FiniteSets, TLC

VARIABLES
    clock,      \* SpecSlot: the instant, in minutes since 00:00 UTC of day 0
    slotRes,    \* SpecSlot: what the resolver returns at clock
    slotPrev,   \* SpecSlot: what the resolver returned one minute earlier
    selIn,      \* SpecSelect: the inputs (dateString, slot, candidate count)
    selOut,     \* SpecSelect: the selections evaluated so far, in order
    cronSecret, \* Spec: whether process.env.CRON_SECRET is set
    pushNow,    \* Spec: the wall clock, an index into Instants
    pushTokens, \* Spec: User.pushToken of every user: none, valid or malformed
    published,  \* Spec: tips 1..published have status published
    dailyPush,  \* Spec: the DailyPush table, one row (or none) per (date, slot)
    inv,        \* Spec: the local state of every invocation of GET
    faults,     \* Spec: store operations that have thrown so far
    userTable,  \* SpecLike: ids of the User rows
    actions,    \* SpecLike: the Action rows of the tip, as <<user, kind>>
    counts,     \* SpecLike: likesCount, savesCount, sharesCount of the tip
    req,        \* SpecLike: the local state of every POST request
    likeFaults, \* SpecLike: store operations made to throw so far
    adminKey,   \* SpecPipe: whether process.env.ADMIN_API_KEY is set
    tipRows,    \* SpecPipe: the Tip table, in creation order
    jobs,       \* SpecPipe: the Job table, one row per prisma.job.create
    gen,        \* SpecPipe: the local state of every generate-tips GET
    enr,        \* SpecPipe: the local state of every enrich-tip POST
    bat,        \* SpecPipe: the local state of every enrich-tip GET (batch)
    feedOut,    \* SpecPipe: the feed pages returned so far
    pipeFaults, \* SpecPipe: store operations made to throw so far
    loop,       \* SpecLoop: the local state of one dispatch invocation
    loopRow,    \* SpecLoop: the DailyPush row of that invocation's (date, slot)
    halfClock,  \* SpecHalf: the half hour of the IST day, an element of HalfInstants
    halfRows,   \* SpecHalf: status of today's DailyPush rows, by their hour field
    half,       \* SpecHalf: the local state of every half-hourly dispatch GET
    halfFaults, \* SpecHalf: operations made to throw so far
    fan,        \* SpecFan: the local state of the send loop of one invocation
    fanTokens,  \* SpecFan: the pushToken of every recipient the user query returned
    walk,       \* SpecWalk: a client walk of the feed: its parameters and the pages so far
    day,        \* SpecDay: the half-hourly slot and tip lookup at a minute of the IST day
    userRows,   \* SpecUser: the User table, rows of id and email
    ucall,      \* SpecUser: the local state of every call that creates users lazily
    dedup,      \* SpecDedup: the uniqueness pass of generateTips over one AI result
    batch,      \* SpecBatch: one batch-enrichment invocation and the items it has in flight
    bulk,       \* SpecBulk: one admin send-push request through sendBulkPushNotifications
    shift       \* SpecShift: the half-hourly dispatch with the identity of each tip

slotVars == <<clock, slotRes, slotPrev>>

selVars == <<selIn, selOut>>

pushVars == <<cronSecret, pushNow, pushTokens, published, dailyPush, inv, faults>>

likeVars == <<userTable, actions, counts, req, likeFaults>>

pipeVars == <<adminKey, tipRows, jobs, gen, enr, bat, feedOut, pipeFaults>>

loopVars == <<loop, loopRow>>

halfVars == <<halfClock, halfRows, half, halfFaults>>

fanVars == <<fan, fanTokens>>

walkVars == <<walk>>

dayVars == <<day>>

usrVars == <<userRows, ucall>>

dedupVars == <<dedup>>

grpVars == <<batch>>

bulkVars == <<bulk>>

shiftVars == <<shift>>

moreVars == <<pipeVars, loopVars, halfVars, fanVars, walkVars, dayVars, usrVars, dedupVars, grpVars, bulkVars, shiftVars>>

\* every variable outside pipeVars
outsidePipe == <<slotVars, selVars, pushVars, likeVars, loopVars, halfVars, fanVars, walkVars, dayVars, usrVars, dedupVars, grpVars, bulkVars, shiftVars>>

\* every variable outside loopVars
outsideLoop == <<slotVars, selVars, pushVars, likeVars, pipeVars, halfVars, fanVars, walkVars, dayVars, usrVars, dedupVars, grpVars, bulkVars, shiftVars>>

\* every variable outside halfVars
outsideHalf == <<slotVars, selVars, pushVars, likeVars, pipeVars, loopVars, fanVars, walkVars, dayVars, usrVars, dedupVars, grpVars, bulkVars, shiftVars>>

\* every variable outside fanVars
outsideFan == <<slotVars, selVars, pushVars, likeVars, pipeVars, loopVars, halfVars, walkVars, dayVars, usrVars, dedupVars, grpVars, bulkVars, shiftVars>>

\* every variable outside walkVars
outsideWalk == <<slotVars, selVars, pushVars, likeVars, pipeVars, loopVars, halfVars, fanVars, dayVars, usrVars, dedupVars, grpVars, bulkVars, shiftVars>>

\* every variable outside dayVars
outsideDay == <<slotVars, selVars, pushVars, likeVars, pipeVars, loopVars, halfVars, fanVars, walkVars, usrVars, dedupVars, grpVars, bulkVars, shiftVars>>

\* every variable outside usrVars
outsideUsr == <<slotVars, selVars, pushVars, likeVars, pipeVars, loopVars, halfVars, fanVars, walkVars, dayVars, dedupVars, grpVars, bulkVars, shiftVars>>

\* every variable outside dedupVars
outsideDedup == <<slotVars, selVars, pushVars, likeVars, pipeVars, loopVars, halfVars, fanVars, walkVars, dayVars, usrVars, grpVars, bulkVars, shiftVars>>

\* every variable outside grpVars
outsideGrp == <<slotVars, selVars, pushVars, likeVars, pipeVars, loopVars, halfVars, fanVars, walkVars, dayVars, usrVars, dedupVars, bulkVars, shiftVars>>

\* every variable outside bulkVars
outsideBulk == <<slotVars, selVars, pushVars, likeVars, pipeVars, loopVars, halfVars, fanVars, walkVars, dayVars, usrVars, dedupVars, grpVars, shiftVars>>

\* every variable outside shiftVars
outsideShift == <<slotVars, selVars, pushVars, likeVars, pipeVars, loopVars, halfVars, fanVars, walkVars, dayVars, usrVars, dedupVars, grpVars, bulkVars>>

vars == <<slotVars, selVars, pushVars, likeVars, moreVars>>

(***************************************************************************)
(* Bounds                                                                  *)
(***************************************************************************)
\* number of UTC days the resolver walk covers
MaxDay == 2

\* largest candidate list the selector is evaluated on
MaxCandidates == 5

\* invocations of the dispatch endpoint
MaxInv == 2

\* tips that get published while the dispatch model runs
MaxTips == 2

\* users in the User table
NumUsers == 2

\* store operations that throw in one run
MaxFaults == 1

\* POST requests to the tip action endpoint
MaxReq == 2

\* calls to the endpoints that create users lazily
MaxUserCalls == 3

\* tips in one result of the AI call
MaxObjectLen == 3

\* draft tips the batch query returns
MaxDrafts == 7

\* users the admin send-push query returns
MaxBulkUsers == 5

\* tips created on the day the half-hourly dispatch is followed through
MaxDayTips == 3

\* half hours after 06:00 the half-hourly dispatch is followed through
MaxShiftTicks == 3

\* messages per chunk of expo.chunkPushNotifications, the SDK's limit scaled
\* down
ChunkLimit == 2

\* user_id values clients supply to those endpoints
NumClientIds == 2

\* distinct user ids the requests carry
NumActors == 2

\* generate-tips invocations that run next to the other pipeline handlers
MaxGen == 1

\* generate-tips invocations that run concurrently with each other
MaxConcurrentGen == 2

\* most tips one AI call returns
MaxAiTips == 2

\* enrich-tip POST invocations
MaxEnrich == 1

\* enrich-tip POST invocations that run concurrently with each other
MaxConcurrentEnrich == 2

\* enrich-tip GET (batch) invocations
MaxBatch == 1

\* store operations of the content pipeline that may throw
MaxPipeFaults == 2

\* largest limit parameter of a feed request
MaxLimit == 2

\* tip detail GET requests
MaxViews == 1

\* most users with a push token one dispatch invocation fetches
MaxRecipients == 11

\* invocations of the half-hourly dispatch endpoint
MaxHalfInv == 2

\* operations of the half-hourly dispatch handler that may throw
MaxHalfFaults == 2

\* half hours that pass while the half-hourly dispatch model runs
MaxHalfTicks == 6

\* recipients of the send loop whose tokens are modelled
MaxFan == 4

\* largest Tip table a feed walk runs over
MaxWalkTips == 60

(***************************************************************************)
(* Program constants of the seeded dispatch variant                        *)
(***************************************************************************)
START_HOUR == 8

END_HOUR == 1

TOTAL_NOTIFICATIONS == 30

TOTAL_MINUTES == 17 * 60

SLOT_DURATION == TOTAL_MINUTES \div TOTAL_NOTIFICATIONS

IST_OFFSET_HOURS == 5

IST_OFFSET_MINUTES == 30

(***************************************************************************)
(* Calendar: the part of the JavaScript Date the resolver uses.  Day 0 of  *)
(* the model is 2026-01-30 UTC, so that the IST window that opens on       *)
(* 2026-01-31 and the month rollover to 2026-02-01 are both covered.       *)
(***************************************************************************)
BaseDate == [y |-> 2026, m |-> 1, d |-> 30]

IsLeap(y) == (y % 4 = 0 /\ y % 100 # 0) \/ y % 400 = 0

DaysInMonth(y, m) ==
    IF m = 2 THEN (IF IsLeap(y) THEN 29 ELSE 28)
    ELSE IF m \in {4, 6, 9, 11} THEN 30 ELSE 31

\* Date.setUTCDate(getUTCDate() + 1): the next calendar day, rolling over
\* the month and the year.
NextDate(dt) ==
    IF dt.d < DaysInMonth(dt.y, dt.m) THEN [dt EXCEPT !.d = dt.d + 1]
    ELSE IF dt.m < 12 THEN [y |-> dt.y, m |-> dt.m + 1, d |-> 1]
    ELSE [y |-> dt.y + 1, m |-> 1, d |-> 1]

RECURSIVE AddDays(_, _)
AddDays(dt, k) == IF k = 0 THEN dt ELSE AddDays(NextDate(dt), k - 1)

\* new Date(): the UTC fields of the instant t (minutes since day 0, 00:00 UTC)
UtcDate(t) == AddDays(BaseDate, t \div 1440)

UtcHours(t) == (t % 1440) \div 60

UtcMinutes(t) == t % 60

(***************************************************************************)
(* Strings are sequences of UTF-16 code units, as charCodeAt reads them.   *)
(***************************************************************************)
\* String(n) for a non-negative integer
RECURSIVE NumStr(_)
NumStr(n) == IF n < 10 THEN <<48 + n>> ELSE NumStr(n \div 10) \o <<48 + (n % 10)>>

\* s.padStart(2, "0")
PadStart2(s) == IF Len(s) < 2 THEN <<48>> \o s ELSE s

\* `${y}-${String(m).padStart(2,"0")}-${String(d).padStart(2,"0")}`
FormatDate(dt) ==
    NumStr(dt.y) \o <<45>> \o PadStart2(NumStr(dt.m)) \o <<45>> \o PadStart2(NumStr(dt.d))

(***************************************************************************)
(* Time-slot resolver                                                      *)
(***************************************************************************)
getISTDateTime(t) ==
    LET m0 == UtcMinutes(t) + IST_OFFSET_MINUTES
        h0 == UtcHours(t) + IST_OFFSET_HOURS
        istMinutes == IF m0 >= 60 THEN m0 - 60 ELSE m0
        h1 == IF m0 >= 60 THEN h0 + 1 ELSE h0
        istHours == IF h1 >= 24 THEN h1 - 24 ELSE h1
        dayOffset == IF h1 >= 24 THEN 1 ELSE 0
        istDate == IF dayOffset > 0 THEN NextDate(UtcDate(t)) ELSE UtcDate(t)
    IN  [hours |-> istHours, minutes |-> istMinutes, dateString |-> FormatDate(istDate)]

Min(a, b) == IF a <= b THEN a ELSE b

\* getSlotIndex with the Math.min clamp left out
getSlotIndex_noClamp(hour, minute) ==
    IF hour >= START_HOUR
    THEN ((hour - START_HOUR) * 60 + minute) \div SLOT_DURATION
    ELSE IF hour <= END_HOUR
    THEN ((24 - START_HOUR + hour) * 60 + minute) \div SLOT_DURATION
    ELSE -1

getSlotIndex(hour, minute) ==
    IF hour >= START_HOUR
    THEN Min(((hour - START_HOUR) * 60 + minute) \div SLOT_DURATION, TOTAL_NOTIFICATIONS - 1)
    ELSE IF hour <= END_HOUR
    THEN Min(((24 - START_HOUR + hour) * 60 + minute) \div SLOT_DURATION,
             TOTAL_NOTIFICATIONS - 1)
    ELSE -1

isWithinNotificationWindow(hour) == hour >= START_HOUR \/ hour <= END_HOUR

\* The first lines of GET: the fields every later step of the handler uses.
Resolve(t) ==
    LET ist == getISTDateTime(t)
    IN  [at |-> t,
         currentHour |-> ist.hours,
         currentMinute |-> ist.minutes,
         today |-> ist.dateString,
         currentSlot |-> getSlotIndex(ist.hours, ist.minutes),
         inWindow |-> isWithinNotificationWindow(ist.hours)]

(***************************************************************************)
(* Fixed-point arithmetic for Math.sin.  A number is a sequence of limbs   *)
(* in base 10^4: limb 1 is the integer part, limbs 2..6 are the fraction   *)
(* (20 decimal digits).  TLC's integers are 32 bits wide, every            *)
(* intermediate value below stays under 2^31.  The double rounding of the  *)
(* JavaScript engine (about 10^-12 on these values) is not modelled.       *)
(***************************************************************************)
\* carries (and borrows) propagated from limb k down to limb 1
RECURSIVE FxNorm(_, _, _)
FxNorm(raw, k, carry) ==
    IF k = 1 THEN <<raw[1] + carry>>
    ELSE LET v == raw[k] + carry
         IN  FxNorm(raw, k - 1, v \div 10000) \o <<v % 10000>>

\* limb i of a, 0 beyond the limbs kept
FxLimb(a, i) == IF i <= Len(a) THEN a[i] ELSE 0

RECURSIVE FxSumProd(_, _, _, _)
FxSumProd(a, b, k, i) ==
    IF i > k THEN 0 ELSE FxLimb(a, i) * FxLimb(b, k + 1 - i) + FxSumProd(a, b, k, i + 1)

\* a * b: two guard limbs are computed for their carries, then dropped
FxMul(a, b) ==
    SubSeq(FxNorm([k \in 1 .. (Len(a) + 2) |-> FxSumProd(a, b, k, 1)], Len(a) + 2, 0),
           1, Len(a))

\* a * m for a small non-negative integer m
FxMulSmall(a, m) == FxNorm([k \in 1 .. Len(a) |-> a[k] * m], Len(a), 0)

RECURSIVE FxDivFrom(_, _, _, _)
FxDivFrom(a, d, k, rem) ==
    IF k > Len(a) THEN <<>>
    ELSE LET cur == rem * 10000 + a[k]
         IN  <<cur \div d>> \o FxDivFrom(a, d, k + 1, cur % d)

\* a / d for a small positive integer d
FxDivSmall(a, d) == FxDivFrom(a, d, 1, 0)

\* 1 - a, for 0 <= a <= 1
FxOneMinus(a) ==
    FxNorm([k \in 1 .. Len(a) |-> IF k = 1 THEN 1 - a[1] ELSE 0 - a[k]], Len(a), 0)

FxOne == <<1, 0, 0, 0, 0, 0>>

FxIsZero(a) == \A k \in 1 .. Len(a) : a[k] = 0

\* pi/2 = 1.5707 9632 6794 8966 1923 ...
HALF_PI == <<1, 5707, 9632, 6794, 8966, 1923>>

\* 1/(2 pi) = 0.1591 5494 3091 8953 3576 8883 7633 7251 4362 ...
INV_TWO_PI == <<1591, 5494, 3091, 8953, 3576, 8883, 7633, 7251, 4362>>

\* the fractional part of seed / (2 pi): the angle in turns, 0 <= t < 1
\* (seed < 2^31 has three limbs s2 s1 s0; two guard limbs as in FxMul)
TurnFraction(seed) ==
    LET s0 == seed % 10000
        s1 == (seed \div 10000) % 10000
        s2 == seed \div 100000000
        raw == [k \in 1 .. 8 |->
                   IF k = 1 THEN 0
                   ELSE s0 * INV_TWO_PI[k - 1] + s1 * INV_TWO_PI[k] + s2 * INV_TWO_PI[k + 1]]
    IN  [SubSeq(FxNorm(raw, 8, 0), 1, 6) EXCEPT ![1] = 0]

\* sin(y)/y = 1 - z/(2*3) (1 - z/(4*5) (1 - z/(6*7) ( ... ))), z = y^2,
\* evaluated from the innermost factor (k = 12) outwards; acc is the value
\* of the factors k+1 .. 12.
RECURSIVE SinSeries(_, _, _)
SinSeries(z, k, acc) ==
    IF k = 0 \/ acc[1] > 1 THEN acc
    ELSE SinSeries(z, k - 1,
                   FxOneMinus(FxDivSmall(FxMul(z, acc), (2 * k) * (2 * k + 1))))

\* sin(2 pi t) for the turn fraction t: the quadrant gives the sign and the
\* reflection, the series the value on [0, pi/2]
SinOfTurn(t4) ==
    LET u == [t4 EXCEPT ![1] = 0]
        v == IF t4[1] % 2 = 1 THEN FxOneMinus(u) ELSE u
        y == FxMul(HALF_PI, v)
        z == FxMul(y, y)
    IN  IF y[1] > 1 \/ z[1] > 2 THEN [neg |-> FALSE, mag |-> FxOne]
        ELSE [neg |-> t4[1] >= 2, mag |-> FxMul(y, SinSeries(z, 12, FxOne))]

\* Math.sin(seed) for an integer seed >= 0: sign and magnitude
MathSin(seed) == SinOfTurn(FxMulSmall(TurnFraction(seed), 4))

(***************************************************************************)
(* Deterministic selector                                                  *)
(***************************************************************************)
\* x - Math.floor(x) for x = Math.sin(seed) * 10000: a value in [0, 1)
seededRandom(seed) ==
    LET s == MathSin(seed)
        frac == <<0, s.mag[3], s.mag[4], s.mag[5], s.mag[6], 0>>
    IN  IF s.neg /\ ~FxIsZero(frac) THEN FxOneMinus(frac) ELSE frac

\* (hash << 5) - hash + char, then hash & hash: 31 * hash + char wrapped to
\* a signed 32-bit integer
HashStep(hash, char) ==
    LET hi == hash \div 65536
        lo == hash % 65536
        low == 31 * lo + char
        high == 31 * hi + (low \div 65536)
    IN  (((high + 32768) % 65536) - 32768) * 65536 + (low % 65536)

RECURSIVE HashFrom(_, _, _)
HashFrom(str, i, hash) ==
    IF i > Len(str) THEN hash ELSE HashFrom(str, i + 1, HashStep(hash, str[i]))

MathAbs(x) == IF x < 0 THEN 0 - x ELSE x

\* the template literal `${dateString}-${slot}`
SeedString(dateString, slot) == dateString \o <<45>> \o NumStr(slot)

createSeed(dateString, slot) == MathAbs(HashFrom(SeedString(dateString, slot), 1, 0))

\* the index rounded to the nearest integer instead of floored
randomIndex_round(dateString, slot, n) ==
    LET p == FxMulSmall(seededRandom(createSeed(dateString, slot)), n)
    IN  IF p[2] >= 5000 THEN p[1] + 1 ELSE p[1]

\* Math.floor(seededRandom(seed) * allTips.length)
randomIndex(dateString, slot, n) ==
    FxMulSmall(seededRandom(createSeed(dateString, slot)), n)[1]

(***************************************************************************)
(* The dispatch endpoint (seeded variant): GET of send-daily-push.         *)
(* Every await of the handler is one step; steps of different invocations  *)
(* interleave.  The store returns published tips in id order.              *)
(***************************************************************************)
\* The instants at which the scheduler may fire, in minutes since day 0
\* 00:00 UTC: 2026-01-31 08:05 and 08:20 IST (both in slot 0), 2026-02-01
\* 01:30 IST and 03:00 IST.
Instants == <<1595, 1610, 2640, 2730>>

Invs == 1 .. MaxInv

Users == 1 .. NumUsers

KeyOf(r) == <<r.today, r.currentSlot>>

Keys == {KeyOf(Resolve(Instants[k])) : k \in 1 .. Len(Instants)}

\* findUnique returned null
NoRow == [status |-> "absent", tipId |-> 0, tipCount |-> 0, sentCount |-> 0, errorCount |-> 0]

Resp(kind, sentCount, errorCount, tipId) ==
    [kind |-> kind, sentCount |-> sentCount, errorCount |-> errorCount, tipId |-> tipId]

NoResp == Resp("none", 0, 0, 0)

IdleInv ==
    [pc |-> "idle", at |-> 0, today |-> <<>>, slot |-> -1, authorized |-> FALSE,
     n |-> 0, tipToSend |-> 0, users |-> <<>>, idx |-> 0,
     sentCount |-> 0, errorCount |-> 0, sentTo |-> [u \in Users |-> "none"],
     resp |-> NoResp, after |-> {}, wrote |-> FALSE, faulted |-> FALSE]

InvKey(i) == <<inv[i].today, inv[i].slot>>

\* existingPush && existingPush.status === "sent": the wrong status literal
AlreadyCompleted_wrongStatus(row) == row.status # "absent" /\ row.status = "sent"

\* existingPush && existingPush.status === "completed"
AlreadyCompleted(row) == row.status # "absent" /\ row.status = "completed"

\* randomIndex on the keys and candidate counts of this model, evaluated once
IndexTable ==
    [k \in Keys |-> [n \in 1 .. (MaxTips + 1) |->
        IF k[2] < 0 THEN 0 ELSE randomIndex(k[1], k[2], n)]]

\* allTips[randomIndex] with allTips = tips 1..n in id order
SelectedTip(key, n) == IndexTable[key][n] + 1

\* prisma.user.findMany({ where: { pushToken: { not: null } } }), in id order
RECURSIVE UsersWithToken(_)
UsersWithToken(u) ==
    IF u > NumUsers THEN <<>>
    ELSE (IF pushTokens[u] # "none" THEN <<u>> ELSE <<>>) \o UsersWithToken(u + 1)

\* lines 116-163: resolve the slot, authenticate, check the window
Start(i) ==
    /\ inv[i].pc = "idle"
    /\ \A j \in Invs : j < i => inv[j].pc # "idle"
    /\ \E authOk \in BOOLEAN :
        LET r == Resolve(Instants[pushNow])
            base == [inv[i] EXCEPT !.at = r.at, !.today = r.today, !.slot = r.currentSlot,
                                   !.after = {j \in Invs : inv[j].pc = "done"}]
        IN  inv' = [inv EXCEPT ![i] =
                IF cronSecret /\ ~authOk
                THEN [base EXCEPT !.pc = "done", !.resp = Resp("unauthorized", 0, 0, 0)]
                ELSE IF ~r.inWindow
                THEN [base EXCEPT !.pc = "done", !.authorized = TRUE,
                                  !.resp = Resp("outOfWindow", 0, 0, 0)]
                ELSE [base EXCEPT !.pc = "findPush", !.authorized = TRUE]]
    /\ UNCHANGED <<cronSecret, pushNow, pushTokens, published, dailyPush, faults>>
    /\ UNCHANGED <<slotVars, selVars, likeVars, moreVars>>

\* lines 167-194: the idempotency check
FindExisting(i) ==
    /\ inv[i].pc = "findPush"
    /\ LET row == dailyPush[InvKey(i)]
       IN  inv' = [inv EXCEPT ![i] =
               IF AlreadyCompleted(row)
               THEN [@ EXCEPT !.pc = "done",
                              !.resp = Resp("alreadySent", row.sentCount, row.errorCount,
                                            row.tipId)]
               ELSE [@ EXCEPT !.pc = "findTips"]]
    /\ UNCHANGED <<cronSecret, pushNow, pushTokens, published, dailyPush, faults>>
    /\ UNCHANGED <<slotVars, selVars, likeVars, moreVars>>

\* status: 500 in place of success: true, skipped: true
NoTipsResp_error == Resp("error", 0, 0, 0)

\* lines 210-222: success: true, skipped: true, tipCount: 0
NoTipsResp == Resp("noTips", 0, 0, 0)

\* lines 197-227: fetch the published tips and select one
FetchTips(i) ==
    /\ inv[i].pc = "findTips"
    /\ inv' = [inv EXCEPT ![i] =
            IF published = 0
            THEN [@ EXCEPT !.pc = "done", !.resp = NoTipsResp]
            ELSE [@ EXCEPT !.pc = "upsert", !.n = published,
                           !.tipToSend = SelectedTip(InvKey(i), published)]]
    /\ UNCHANGED <<cronSecret, pushNow, pushTokens, published, dailyPush, faults>>
    /\ UNCHANGED <<slotVars, selVars, likeVars, moreVars>>

\* lines 234-253: prisma.dailyPush.upsert
UpsertPush(i) ==
    /\ inv[i].pc = "upsert"
    /\ dailyPush' = [dailyPush EXCEPT ![InvKey(i)] =
            IF @.status = "absent"
            THEN [status |-> "sending", tipId |-> inv[i].tipToSend, tipCount |-> inv[i].n,
                  sentCount |-> 0, errorCount |-> 0]
            ELSE [@ EXCEPT !.status = "sending"]]
    /\ inv' = [inv EXCEPT ![i].pc = "findUsers", ![i].wrote = TRUE]
    /\ UNCHANGED <<cronSecret, pushNow, pushTokens, published, faults>>
    /\ UNCHANGED <<slotVars, selVars, likeVars, moreVars>>

\* lines 256-266 and 291-304: fetch the recipients
FetchUsers(i) ==
    /\ inv[i].pc = "findUsers"
    /\ LET users == UsersWithToken(1)
       IN  inv' = [inv EXCEPT ![i] =
               IF Len(users) = 0
               THEN [@ EXCEPT !.pc = "completeEmpty"]
               ELSE [@ EXCEPT !.pc = "send", !.users = users, !.idx = 1]]
    /\ UNCHANGED <<cronSecret, pushNow, pushTokens, published, dailyPush, faults>>
    /\ UNCHANGED <<slotVars, selVars, likeVars, moreVars>>

\* lines 268-288: no recipients, the row is completed with sentCount 0
CompleteEmpty(i) ==
    /\ inv[i].pc = "completeEmpty"
    /\ dailyPush' = [dailyPush EXCEPT ![InvKey(i)] =
            [@ EXCEPT !.status = "completed", !.sentCount = 0]]
    /\ inv' = [inv EXCEPT ![i].pc = "done", ![i].wrote = TRUE,
                          ![i].resp = Resp("noUsers", 0, 0, inv[i].tipToSend)]
    /\ UNCHANGED <<cronSecret, pushNow, pushTokens, published, faults>>
    /\ UNCHANGED <<slotVars, selVars, likeVars, moreVars>>

\* lines 306-345: one iteration of the send loop
SendOne(i) ==
    /\ inv[i].pc = "send"
    /\ LET u == inv[i].users[inv[i].idx]
           nextPc == IF inv[i].idx = Len(inv[i].users) THEN "complete" ELSE "send"
       IN  IF pushTokens[u] = "malformed"
           THEN inv' = [inv EXCEPT ![i].errorCount = @ + 1, ![i].idx = @ + 1,
                                   ![i].pc = nextPc]
           ELSE \E ticket \in {"ok", "error"} :
                    inv' = [inv EXCEPT ![i].sentTo[u] = ticket,
                                       ![i].sentCount = IF ticket = "ok" THEN @ + 1 ELSE @,
                                       ![i].errorCount = IF ticket = "ok" THEN @ ELSE @ + 1,
                                       ![i].idx = @ + 1,
                                       ![i].pc = nextPc]
    /\ UNCHANGED <<cronSecret, pushNow, pushTokens, published, dailyPush, faults>>
    /\ UNCHANGED <<slotVars, selVars, likeVars, moreVars>>

\* lines 348-388: record the result
CompletePush(i) ==
    /\ inv[i].pc = "complete"
    /\ dailyPush' = [dailyPush EXCEPT ![InvKey(i)] =
            [@ EXCEPT !.status = "completed", !.sentCount = inv[i].sentCount,
                      !.errorCount = inv[i].errorCount]]
    /\ inv' = [inv EXCEPT ![i].pc = "done", ![i].wrote = TRUE,
                          ![i].resp = Resp("success", inv[i].sentCount, inv[i].errorCount,
                                           inv[i].tipToSend)]
    /\ UNCHANGED <<cronSecret, pushNow, pushTokens, published, faults>>
    /\ UNCHANGED <<slotVars, selVars, likeVars, moreVars>>

StoreOps == {"findPush", "findTips", "upsert", "findUsers", "completeEmpty", "complete"}

\* a prisma call inside the try block rejects: control moves to the catch
StoreThrows(i) ==
    /\ inv[i].pc \in StoreOps
    /\ faults < MaxFaults
    /\ faults' = faults + 1
    /\ inv' = [inv EXCEPT ![i].pc = "catch", ![i].faulted = TRUE]
    /\ UNCHANGED <<cronSecret, pushNow, pushTokens, published, dailyPush>>
    /\ UNCHANGED <<slotVars, selVars, likeVars, moreVars>>

\* lines 389-418: updateMany({ date, hour: currentSlot, status: "sending" })
\* sets failed; a rejection of updateMany itself is swallowed
HandleError(i) ==
    /\ inv[i].pc = "catch"
    /\ \E updated \in BOOLEAN :
        LET hit == updated /\ dailyPush[InvKey(i)].status = "sending"
        IN  /\ dailyPush' = IF hit THEN [dailyPush EXCEPT ![InvKey(i)].status = "failed"]
                            ELSE dailyPush
            /\ inv' = [inv EXCEPT ![i].pc = "done",
                                  ![i].wrote = (@ \/ hit),
                                  ![i].resp = Resp("error", 0, 0, 0)]
    /\ UNCHANGED <<cronSecret, pushNow, pushTokens, published, faults>>
    /\ UNCHANGED <<slotVars, selVars, likeVars, moreVars>>

\* time passes to the next instant
AdvanceClock ==
    /\ pushNow < Len(Instants)
    /\ pushNow' = pushNow + 1
    /\ UNCHANGED <<cronSecret, pushTokens, published, dailyPush, inv, faults>>
    /\ UNCHANGED <<slotVars, selVars, likeVars, moreVars>>

\* the enrichment stage publishes one more tip
PublishTip ==
    /\ published < MaxTips
    /\ published' = published + 1
    /\ UNCHANGED <<cronSecret, pushNow, pushTokens, dailyPush, inv, faults>>
    /\ UNCHANGED <<slotVars, selVars, likeVars, moreVars>>

PushIdle ==
    /\ cronSecret = TRUE
    /\ pushNow = 1
    /\ pushTokens = [u \in Users |-> "none"]
    /\ published = 0
    /\ dailyPush = [k \in Keys |-> NoRow]
    /\ inv = [i \in Invs |-> IdleInv]
    /\ faults = 0

PushInit ==
    /\ cronSecret \in BOOLEAN
    /\ pushNow = 1
    /\ pushTokens \in [Users -> {"none", "valid", "malformed"}]
    /\ published = 0
    /\ dailyPush = [k \in Keys |-> NoRow]
    /\ inv = [i \in Invs |-> IdleInv]
    /\ faults = 0

(***************************************************************************)
(* The tip action endpoints: POST of tips/[id] (like / save / share        *)
(* toggle) and POST of tips/[id]/action (share only).  One tip exists      *)
(* (id 1); a request may also name a missing tip.  Every await is one      *)
(* step.  An Action row is <<user, kind, id>>; the id of a row is the      *)
(* index of the request that created it (a request creates at most one).   *)
(***************************************************************************)
Reqs == 1 .. MaxReq

Actors == 1 .. NumActors

ActionTypes == {"like", "save", "share"}

IdleReq ==
    [pc |-> "idle", via |-> "none", user |-> 0, kind |-> "none", tip |-> 0, snapshot |-> 0,
     existing |-> 0, did |-> "nothing", resp |-> "none", failed |-> FALSE]

\* the handler returns: its locals are gone, the answer and what it did remain
Return(rec, resp) ==
    [rec EXCEPT !.pc = "done", !.resp = resp, !.snapshot = 0, !.existing = 0]

\* the row findUnique returns for (userId, tipId, actionType): its id, 0 for null
ActionIdOf(u, k) ==
    IF \E a \in actions : a[1] = u /\ a[2] = k
    THEN (CHOOSE a \in actions : a[1] = u /\ a[2] = k)[3]
    ELSE 0

\* data: { [countField]: tip[countField] + 1 }: the value read at line 89
IncrementCount_readModifyWrite(current, snapshot) == snapshot + 1

\* data: { [countField]: { increment: 1 } }: atomic at the store
IncrementCount(current, snapshot) == current + 1

\* data: { [countField]: { decrement: 1 } }
DecrementCount(current, snapshot) == current - 1

\* lines 69-87: read the body and validate it (user 0: user_id missing)
ReqStart(r) ==
    /\ req[r].pc = "idle"
    /\ \A q \in Reqs : q < r => req[q].pc # "idle"
    /\ \E u \in 0 .. NumActors, k \in ActionTypes \cup {"view"}, t \in {1, 2} :
        req' = [req EXCEPT ![r] =
            IF u = 0 \/ k \notin {"like", "save", "share"}
            THEN Return([@ EXCEPT !.via = "toggle"], "badRequest")
            ELSE [@ EXCEPT !.pc = "findTip", !.via = "toggle", !.user = u, !.kind = k,
                           !.tip = t]]
    /\ UNCHANGED <<userTable, actions, counts, likeFaults>>
    /\ UNCHANGED <<slotVars, selVars, pushVars, moreVars>>

\* lines 89-92: prisma.tip.findUnique
FindTip(r) ==
    /\ req[r].pc = "findTip"
    /\ req' = [req EXCEPT ![r] =
            IF req[r].tip # 1
            THEN Return(@, "notFound")
            ELSE [@ EXCEPT !.pc = "findUser", !.snapshot = counts[req[r].kind]]]
    /\ UNCHANGED <<userTable, actions, counts, likeFaults>>
    /\ UNCHANGED <<slotVars, selVars, pushVars, moreVars>>

\* line 94: prisma.user.findUnique
FindUser(r) ==
    /\ req[r].pc = "findUser"
    /\ req' = [req EXCEPT ![r].pc =
            IF req[r].user \in userTable THEN "findAction" ELSE "createUser"]
    /\ UNCHANGED <<userTable, actions, counts, likeFaults>>
    /\ UNCHANGED <<slotVars, selVars, pushVars, moreVars>>

\* lines 95-102: prisma.user.create; the id is the primary key
CreateUser(r) ==
    /\ req[r].pc = "createUser"
    /\ IF req[r].user \in userTable
       THEN /\ req' = [req EXCEPT ![r].pc = "catch", ![r].failed = TRUE]
            /\ UNCHANGED userTable
       ELSE /\ userTable' = userTable \cup {req[r].user}
            /\ req' = [req EXCEPT ![r].pc = "findAction"]
    /\ UNCHANGED <<actions, counts, likeFaults>>
    /\ UNCHANGED <<slotVars, selVars, pushVars, moreVars>>

\* lines 104-114: prisma.action.findUnique
FindAction(r) ==
    /\ req[r].pc = "findAction"
    /\ LET found == ActionIdOf(req[r].user, req[r].kind)
       IN  req' = [req EXCEPT ![r].existing = found,
                              ![r].pc = IF found # 0 THEN "deleteAction" ELSE "createAction"]
    /\ UNCHANGED <<userTable, actions, counts, likeFaults>>
    /\ UNCHANGED <<slotVars, selVars, pushVars, moreVars>>

\* lines 115-117: prisma.action.delete({ where: { id: existingAction.id } });
\* rejects when the row with that id is gone
DeleteAction(r) ==
    /\ req[r].pc = "deleteAction"
    /\ IF <<req[r].user, req[r].kind, req[r].existing>> \in actions
       THEN /\ actions' = actions \ {<<req[r].user, req[r].kind, req[r].existing>>}
            /\ req' = [req EXCEPT ![r].pc = "decrement", ![r].did = "deleted"]
       ELSE /\ req' = [req EXCEPT ![r].pc = "catch", ![r].failed = TRUE]
            /\ UNCHANGED actions
    /\ UNCHANGED <<userTable, counts, likeFaults>>
    /\ UNCHANGED <<slotVars, selVars, pushVars, moreVars>>

\* lines 119-135: prisma.tip.update with decrement, then the response
DecrementCounter(r) ==
    /\ req[r].pc = "decrement"
    /\ counts' = [counts EXCEPT ![req[r].kind] = DecrementCount(@, req[r].snapshot)]
    /\ req' = [req EXCEPT ![r] = Return(@, "removed")]
    /\ UNCHANGED <<userTable, actions, likeFaults>>
    /\ UNCHANGED <<slotVars, selVars, pushVars, moreVars>>

\* lines 138-144: prisma.action.create; (userId, tipId, actionType) is unique
CreateAction(r) ==
    /\ req[r].pc = "createAction"
    /\ IF ActionIdOf(req[r].user, req[r].kind) # 0
       THEN /\ req' = [req EXCEPT ![r].pc = "catch", ![r].failed = TRUE]
            /\ UNCHANGED actions
       ELSE /\ actions' = actions \cup {<<req[r].user, req[r].kind, r>>}
            /\ req' = [req EXCEPT ![r].pc = "increment", ![r].did = "created"]
    /\ UNCHANGED <<userTable, counts, likeFaults>>
    /\ UNCHANGED <<slotVars, selVars, pushVars, moreVars>>

\* lines 146-162: prisma.tip.update with increment, then the response
IncrementCounter(r) ==
    /\ req[r].pc = "increment"
    /\ counts' = [counts EXCEPT ![req[r].kind] = IncrementCount(@, req[r].snapshot)]
    /\ req' = [req EXCEPT ![r] = Return(@, "added")]
    /\ UNCHANGED <<userTable, actions, likeFaults>>
    /\ UNCHANGED <<slotVars, selVars, pushVars, moreVars>>

LikeStoreOps ==
    {"findTip", "findUser", "createUser", "findAction", "deleteAction", "decrement",
     "createAction", "increment"}

\* a prisma call rejects for a reason of the store's own (connection, timeout)
LikeStoreThrows(r) ==
    /\ req[r].pc \in LikeStoreOps
    /\ likeFaults < MaxFaults
    /\ likeFaults' = likeFaults + 1
    /\ req' = [req EXCEPT ![r].pc = "catch", ![r].failed = TRUE]
    /\ UNCHANGED <<userTable, actions, counts>>
    /\ UNCHANGED <<slotVars, selVars, pushVars, moreVars>>

\* lines 163-169: the catch answers 500
LikeCatch(r) ==
    /\ req[r].pc = "catch"
    /\ req' = [req EXCEPT ![r] = Return(@, "error")]
    /\ UNCHANGED <<userTable, actions, counts, likeFaults>>
    /\ UNCHANGED <<slotVars, selVars, pushVars, moreVars>>

(***************************************************************************)
(* POST of tips/[id]/action: the share-only endpoint                       *)
(***************************************************************************)
\* lines 8-21: read the body, validate user_id, prisma.tip.findUnique
ShareStart(r) ==
    /\ req[r].pc = "idle"
    /\ \A q \in Reqs : q < r => req[q].pc # "idle"
    /\ \E u \in 0 .. NumActors, t \in {1, 2} :
        req' = [req EXCEPT ![r] =
            IF u = 0
            THEN Return([@ EXCEPT !.via = "share"], "badRequest")
            ELSE [@ EXCEPT !.pc = "shareFindTip", !.via = "share", !.user = u,
                           !.kind = "share", !.tip = t]]
    /\ UNCHANGED <<userTable, actions, counts, likeFaults>>
    /\ UNCHANGED <<slotVars, selVars, pushVars, moreVars>>

\* lines 18-21: prisma.tip.findUnique
ShareFindTip(r) ==
    /\ req[r].pc = "shareFindTip"
    /\ req' = [req EXCEPT ![r] =
            IF req[r].tip # 1
            THEN Return(@, "notFound")
            ELSE [@ EXCEPT !.pc = "shareFindUser", !.snapshot = counts["share"]]]
    /\ UNCHANGED <<userTable, actions, counts, likeFaults>>
    /\ UNCHANGED <<slotVars, selVars, pushVars, moreVars>>

\* lines 23-31: prisma.user.findUnique, then prisma.user.create when null
ShareFindUser(r) ==
    /\ req[r].pc = "shareFindUser"
    /\ req' = [req EXCEPT ![r].pc =
            IF req[r].user \in userTable THEN "shareFindAction" ELSE "shareCreateUser"]
    /\ UNCHANGED <<userTable, actions, counts, likeFaults>>
    /\ UNCHANGED <<slotVars, selVars, pushVars, moreVars>>

\* lines 25-30: prisma.user.create
ShareCreateUser(r) ==
    /\ req[r].pc = "shareCreateUser"
    /\ IF req[r].user \in userTable
       THEN /\ req' = [req EXCEPT ![r].pc = "shareCatch", ![r].failed = TRUE]
            /\ UNCHANGED userTable
       ELSE /\ userTable' = userTable \cup {req[r].user}
            /\ req' = [req EXCEPT ![r].pc = "shareFindAction"]
    /\ UNCHANGED <<actions, counts, likeFaults>>
    /\ UNCHANGED <<slotVars, selVars, pushVars, moreVars>>

\* lines 33-48: prisma.action.findUnique; an existing row answers already_shared
ShareFindAction(r) ==
    /\ req[r].pc = "shareFindAction"
    /\ LET found == ActionIdOf(req[r].user, "share")
       IN  req' = [req EXCEPT ![r] =
               IF found # 0
               THEN Return(@, "alreadyShared")
               ELSE [@ EXCEPT !.pc = "shareCreateAction"]]
    /\ UNCHANGED <<userTable, actions, counts, likeFaults>>
    /\ UNCHANGED <<slotVars, selVars, pushVars, moreVars>>

\* lines 50-56: prisma.action.create
ShareCreateAction(r) ==
    /\ req[r].pc = "shareCreateAction"
    /\ IF ActionIdOf(req[r].user, "share") # 0
       THEN /\ req' = [req EXCEPT ![r].pc = "shareCatch", ![r].failed = TRUE]
            /\ UNCHANGED actions
       ELSE /\ actions' = actions \cup {<<req[r].user, "share", r>>}
            /\ req' = [req EXCEPT ![r].pc = "shareIncrement", ![r].did = "created"]
    /\ UNCHANGED <<userTable, counts, likeFaults>>
    /\ UNCHANGED <<slotVars, selVars, pushVars, moreVars>>

\* lines 58-66: prisma.tip.update with increment, then the response
ShareIncrement(r) ==
    /\ req[r].pc = "shareIncrement"
    /\ counts' = [counts EXCEPT !["share"] = IncrementCount(@, req[r].snapshot)]
    /\ req' = [req EXCEPT ![r] = Return(@, "added")]
    /\ UNCHANGED <<userTable, actions, likeFaults>>
    /\ UNCHANGED <<slotVars, selVars, pushVars, moreVars>>

ShareStoreOps ==
    {"shareFindTip", "shareFindUser", "shareCreateUser", "shareFindAction",
     "shareCreateAction", "shareIncrement"}

\* a prisma call of the share endpoint rejects
ShareStoreThrows(r) ==
    /\ req[r].pc \in ShareStoreOps
    /\ likeFaults < MaxFaults
    /\ likeFaults' = likeFaults + 1
    /\ req' = [req EXCEPT ![r].pc = "shareCatch", ![r].failed = TRUE]
    /\ UNCHANGED <<userTable, actions, counts>>
    /\ UNCHANGED <<slotVars, selVars, pushVars, moreVars>>

\* lines 67-73: the catch answers 500
ShareCatch(r) ==
    /\ req[r].pc = "shareCatch"
    /\ req' = [req EXCEPT ![r] = Return(@, "error")]
    /\ UNCHANGED <<userTable, actions, counts, likeFaults>>
    /\ UNCHANGED <<slotVars, selVars, pushVars, moreVars>>

LikeIdle ==
    /\ userTable = {}
    /\ actions = {}
    /\ counts = [k \in ActionTypes |-> 0]
    /\ req = [r \in Reqs |-> IdleReq]
    /\ likeFaults = 0

(***************************************************************************)
(* The content pipeline: generate-tips GET, enrich-tip POST and GET,       *)
(* the feed GET of tips and the detail GET of tips/[id].  A Tip row is     *)
(* identified by its position in tipRows (tips are never deleted), a Job   *)
(* row by its position in jobs (jobs are never deleted).                   *)
(***************************************************************************)
Gens == 1 .. MaxConcurrentGen

\* the generate invocations of SpecPipe
PipeGens == 1 .. MaxGen

Enrs == 1 .. MaxConcurrentEnrich

\* the single-tip enrichment invocations of SpecPipe
PipeEnrs == 1 .. MaxEnrich

Bats == 1 .. MaxBatch

\* the tip ids a request may name: those of the tips that can exist
MaxPipeTips == MaxGen * MaxAiTips

\* take: 10 of the batch query
BATCH_TAKE == 10

\* the Authorization header (x-admin-key for tips/generate) the caller sends:
\* nothing usable, the cron secret or the admin key; a secret that is not
\* configured cannot be presented
Creds ==
    {"none"} \cup (IF cronSecret THEN {"cron"} ELSE {})
             \cup (IF adminKey THEN {"admin"} ELSE {})

\* !(cronSecret && authHeader !== `Bearer ${cronSecret}`)
CronAuthorized(cred) == ~(cronSecret /\ cred # "cron")

\* (cronSecret && authHeader === ...) || (adminKey && authHeader === ...)
EnrichAuthorized(cred) == (cronSecret /\ cred = "cron") \/ (adminKey /\ cred = "admin")

NoJob == [status |-> "absent", tipsCount |-> 0, errors |-> FALSE, writes |-> 0]

\* the row without the Job reference
DraftTip_untagged(job) ==
    [status |-> "draft", image |-> FALSE, viewMore |-> FALSE, jobId |-> 0,
     enriched |-> FALSE, views |-> 0]

\* the row prisma.tip.create of generate-tips writes
DraftTip(job) ==
    [status |-> "draft", image |-> FALSE, viewMore |-> FALSE, jobId |-> job,
     enriched |-> FALSE, views |-> 0]

\* status: tip.status, the status the handler read, in place of "published"
SingleEnrichStatus_stale(readStatus) == readStatus

\* status: "published" of the single-tip update (enrich-tip POST line 298)
SingleEnrichStatus(readStatus) == "published"

\* status: "published" of the batch update (enrich-tip GET line 378)
BatchEnrichStatus == "published"

\* where: { status: "published" } of the feed query, dropped
FeedVisible_anyStatus(row) == TRUE

\* where: { status: "published" } of the feed query
FeedVisible(row) == row.status = "published"

IdleGen ==
    [pc |-> "idle", cred |-> "none", jobId |-> 0, aiTips |-> 0, aiError |-> FALSE,
     pending |-> 0, created |-> 0, resp |-> "none", faulted |-> FALSE]

\* the id the store gives the row prisma.job.create adds to the table
NewJobId(table) == Len(table) + 1

\* the Job row generate invocation i created, NoJob before it has one
JobOf(i) == IF gen[i].jobId = 0 THEN NoJob ELSE jobs[gen[i].jobId]

\* what a call of getUnsplashImage or searchViewMoreLink ends in
FetchOutcomes == {"value", "null", "threw"}

\* the call without its .catch: a rejection stays a rejection
FetchCaught_rethrow(o) == o

\* .catch((err) => null) on the collaborator's promise
FetchCaught(o) == IF o = "threw" THEN "null" ELSE o

\* the idempotency test dropped
AlreadyEnriched_never(row) == FALSE

\* tip.status === "published" && tip.image
AlreadyEnriched(row) == row.status = "published" /\ row.image

IdleEnr ==
    [pc |-> "idle", cred |-> "none", tipId |-> 0, readStatus |-> "none",
     readImage |-> FALSE, readViewMore |-> FALSE,
     imageFetch |-> "notCalled", linkFetch |-> "notCalled", resp |-> "none"]

IdleBat ==
    [pc |-> "idle", cred |-> "none", drafts |-> <<>>, idx |-> 0, enriched |-> 0,
     failed |-> 0, resp |-> "none"]

NoFeed == [limit |-> 0, items |-> <<>>, nextCursor |-> 0]

\* generate-tips lines 34-41: the secret check
GenStart(i) ==
    /\ gen[i].pc = "idle"
    /\ \A j \in Gens : j < i => gen[j].pc # "idle"
    /\ \E cred \in Creds :
        gen' = [gen EXCEPT ![i] =
            IF CronAuthorized(cred)
            THEN [@ EXCEPT !.pc = "createJob", !.cred = cred]
            ELSE [@ EXCEPT !.pc = "done", !.cred = cred, !.resp = "unauthorized"]]
    /\ UNCHANGED <<adminKey, tipRows, jobs, enr, bat, feedOut, pipeFaults>>
    /\ UNCHANGED outsidePipe

\* generate-tips lines 43-49: prisma.job.create with status running
GenCreateJob(i) ==
    /\ gen[i].pc = "createJob"
    /\ jobs' = Append(jobs, [NoJob EXCEPT !.status = "running"])
    /\ gen' = [gen EXCEPT ![i].pc = "ai", ![i].jobId = NewJobId(jobs)]
    /\ UNCHANGED <<adminKey, tipRows, enr, bat, feedOut, pipeFaults>>
    /\ UNCHANGED outsidePipe

\* generate-tips lines 58-61 and 95-112: generateTips returns an error (with
\* no tips, ai.ts lines 330-337) or n tips; with tips, every prisma.tip.create
\* is started at once
GenAI(i) ==
    /\ gen[i].pc = "ai"
    /\ \E n \in 0 .. MaxAiTips, err \in BOOLEAN :
        /\ err => n = 0
        /\ gen' = [gen EXCEPT ![i] =
               IF err \/ n = 0
               THEN [@ EXCEPT !.pc = "failUpdate", !.aiTips = n, !.aiError = err]
               ELSE [@ EXCEPT !.pc = "persist", !.aiTips = n, !.pending = n]]
    /\ UNCHANGED <<adminKey, tipRows, jobs, enr, bat, feedOut, pipeFaults>>
    /\ UNCHANGED outsidePipe

\* generate-tips lines 61-89: the Job is marked failed with the error list
GenFailUpdate(i) ==
    /\ gen[i].pc = "failUpdate"
    /\ jobs' = [jobs EXCEPT ![gen[i].jobId] = [@ EXCEPT !.status = "failed", !.errors = TRUE,
                                             !.writes = @ + 1]]
    /\ gen' = [gen EXCEPT ![i].pc = "done", ![i].resp = "aiFailed"]
    /\ UNCHANGED <<adminKey, tipRows, enr, bat, feedOut, pipeFaults>>
    /\ UNCHANGED outsidePipe

\* generate-tips lines 95-115: one prisma.tip.create settles.  Promise.all
\* rejects on the first rejection, moving the handler to the catch while the
\* other creates stay in flight; it resolves when every create has resolved.
GenCreateTip(i) ==
    /\ gen[i].pending > 0
    /\ \E ok \in BOOLEAN :
        /\ ~ok => pipeFaults < MaxPipeFaults
        /\ pipeFaults' = IF ok THEN pipeFaults ELSE pipeFaults + 1
        /\ tipRows' = IF ok THEN Append(tipRows, DraftTip(gen[i].jobId)) ELSE tipRows
        /\ gen' = [gen EXCEPT ![i] =
               [@ EXCEPT !.pending = @ - 1,
                         !.created = IF ok THEN @ + 1 ELSE @,
                         !.faulted = (@ \/ ~ok),
                         !.pc = IF gen[i].pc # "persist" THEN @
                                ELSE IF ~ok THEN "catch"
                                ELSE IF gen[i].pending = 1 THEN "completeUpdate"
                                ELSE @]]
    /\ UNCHANGED <<adminKey, jobs, enr, bat, feedOut>>
    /\ UNCHANGED outsidePipe

\* tipsCount: TIPS_PER_DAY, the number of tips requested, in place of the
\* number created
successCount_requested(g) == MaxAiTips

\* generate-tips line 115: successCount = createdTips.length, the length of
\* the array Promise.all resolved with
successCount(g) == g.created

\* generate-tips lines 119-156: the Job is marked completed with
\* tipsCount = successCount
GenCompleteUpdate(i) ==
    /\ gen[i].pc = "completeUpdate"
    /\ jobs' = [jobs EXCEPT ![gen[i].jobId] = [@ EXCEPT !.status = "completed",
                                             !.tipsCount = successCount(gen[i]),
                                             !.writes = @ + 1]]
    /\ gen' = [gen EXCEPT ![i].pc = "done", ![i].resp = "success"]
    /\ UNCHANGED <<adminKey, tipRows, enr, bat, feedOut, pipeFaults>>
    /\ UNCHANGED outsidePipe

\* generate-tips lines 157-189: the catch marks the Job failed
GenCatch(i) ==
    /\ gen[i].pc = "catch"
    /\ jobs' = [jobs EXCEPT ![gen[i].jobId] = [@ EXCEPT !.status = "failed", !.errors = TRUE,
                                             !.writes = @ + 1]]
    /\ gen' = [gen EXCEPT ![i].pc = "done", ![i].resp = "error"]
    /\ UNCHANGED <<adminKey, tipRows, enr, bat, feedOut, pipeFaults>>
    /\ UNCHANGED outsidePipe

\* a prisma.job call rejects: inside the try block control moves to the
\* catch; prisma.job.create (line 44) and the update of the catch (line 161)
\* are outside any try, the rejection leaves the handler
GenStoreThrows(i) ==
    /\ gen[i].pc \in {"createJob", "failUpdate", "completeUpdate", "catch"}
    /\ pipeFaults < MaxPipeFaults
    /\ pipeFaults' = pipeFaults + 1
    /\ gen' = [gen EXCEPT ![i] =
           IF gen[i].pc \in {"createJob", "catch"}
           THEN [@ EXCEPT !.pc = "done", !.resp = "unhandled", !.faulted = TRUE]
           ELSE [@ EXCEPT !.pc = "catch", !.faulted = TRUE]]
    /\ UNCHANGED <<adminKey, tipRows, jobs, enr, bat, feedOut>>
    /\ UNCHANGED outsidePipe

\* enrich-tip POST lines 241-260: the key check, then the body
EnrStart(e) ==
    /\ enr[e].pc = "idle"
    /\ \A j \in Enrs : j < e => enr[j].pc # "idle"
    /\ \E cred \in Creds, t \in 0 .. MaxPipeTips :
        enr' = [enr EXCEPT ![e] =
            IF ~EnrichAuthorized(cred)
            THEN [@ EXCEPT !.pc = "done", !.cred = cred, !.resp = "unauthorized"]
            ELSE IF t = 0
            THEN [@ EXCEPT !.pc = "done", !.cred = cred, !.resp = "badRequest"]
            ELSE [@ EXCEPT !.pc = "find", !.cred = cred, !.tipId = t]]
    /\ UNCHANGED <<adminKey, tipRows, jobs, gen, bat, feedOut, pipeFaults>>
    /\ UNCHANGED outsidePipe

\* enrich-tip POST lines 264-283: prisma.tip.findUnique and the skip test
EnrFind(e) ==
    /\ enr[e].pc = "find"
    /\ LET t == enr[e].tipId
       IN  enr' = [enr EXCEPT ![e] =
               IF t > Len(tipRows)
               THEN [@ EXCEPT !.pc = "done", !.resp = "notFound"]
               ELSE IF AlreadyEnriched(tipRows[t])
               THEN [@ EXCEPT !.pc = "done", !.resp = "skipped",
                              !.readStatus = tipRows[t].status,
                              !.readImage = tipRows[t].image,
                              !.readViewMore = tipRows[t].viewMore]
               ELSE [@ EXCEPT !.pc = "update", !.readStatus = tipRows[t].status,
                              !.readImage = tipRows[t].image,
                              !.readViewMore = tipRows[t].viewMore]]
    /\ UNCHANGED <<adminKey, tipRows, jobs, gen, bat, feedOut, pipeFaults>>
    /\ UNCHANGED outsidePipe

\* enrich-tip POST lines 76-112 and 285-311: getUnsplashImage and, in the
\* version of lines 76-112, searchViewMoreLink, each null when it fails; then
\* one prisma.tip.update with image: image ? image : tip.image,
\* viewMore: viewMore ? viewMore : tip.viewMore and status published.  The
\* version of lines 285-311 makes no link call and does not write viewMore.
EnrUpdate(e) ==
    /\ enr[e].pc = "update"
    /\ \E oi \in FetchOutcomes, ol \in FetchOutcomes \cup {"notCalled"} :
        LET image == FetchCaught(oi)
            viewMore == IF ol = "notCalled" THEN ol ELSE FetchCaught(ol)
        IN  IF "threw" \in {image, viewMore}
            THEN /\ tipRows' = tipRows
                 /\ enr' = [enr EXCEPT ![e].pc = "done", ![e].resp = "error",
                                       ![e].imageFetch = image, ![e].linkFetch = viewMore]
            ELSE /\ tipRows' = [tipRows EXCEPT ![enr[e].tipId] =
                        [@ EXCEPT !.status = SingleEnrichStatus(enr[e].readStatus),
                                  !.image = IF image = "value" THEN TRUE
                                            ELSE enr[e].readImage,
                                  !.viewMore = IF viewMore = "value" THEN TRUE
                                               ELSE IF viewMore = "notCalled" THEN @
                                               ELSE enr[e].readViewMore,
                                  !.enriched = TRUE]]
                 /\ enr' = [enr EXCEPT ![e].pc = "done", ![e].resp = "enriched",
                                       ![e].imageFetch = image, ![e].linkFetch = viewMore]
    /\ UNCHANGED <<adminKey, jobs, gen, bat, feedOut, pipeFaults>>
    /\ UNCHANGED outsidePipe

\* enrich-tip POST lines 312-322: a prisma call rejects, the catch answers 500
EnrStoreThrows(e) ==
    /\ enr[e].pc \in {"find", "update"}
    /\ pipeFaults < MaxPipeFaults
    /\ pipeFaults' = pipeFaults + 1
    /\ enr' = [enr EXCEPT ![e].pc = "done", ![e].resp = "error"]
    /\ UNCHANGED <<adminKey, tipRows, jobs, gen, bat, feedOut>>
    /\ UNCHANGED outsidePipe

\* the ids of the draft tips from position t on
RECURSIVE DraftIdsFrom(_)
DraftIdsFrom(t) ==
    IF t > Len(tipRows) THEN <<>>
    ELSE (IF tipRows[t].status = "draft" THEN <<t>> ELSE <<>>) \o DraftIdsFrom(t + 1)

\* enrich-tip GET lines 332-343: the key check
BatStart(b) ==
    /\ bat[b].pc = "idle"
    /\ \A j \in Bats : j < b => bat[j].pc # "idle"
    /\ \E cred \in Creds :
        bat' = [bat EXCEPT ![b] =
            IF EnrichAuthorized(cred)
            THEN [@ EXCEPT !.pc = "find", !.cred = cred]
            ELSE [@ EXCEPT !.pc = "done", !.cred = cred, !.resp = "unauthorized"]]
    /\ UNCHANGED <<adminKey, tipRows, jobs, gen, enr, feedOut, pipeFaults>>
    /\ UNCHANGED outsidePipe

\* enrich-tip GET lines 347-360: findMany({ where: { status: "draft" }, take: 10 })
BatFind(b) ==
    /\ bat[b].pc = "find"
    /\ LET all == DraftIdsFrom(1)
           drafts == SubSeq(all, 1, Min(Len(all), BATCH_TAKE))
       IN  bat' = [bat EXCEPT ![b] =
               IF Len(drafts) = 0
               THEN [@ EXCEPT !.pc = "done", !.resp = "noDrafts"]
               ELSE [@ EXCEPT !.pc = "enrich", !.drafts = drafts, !.idx = 1]]
    /\ UNCHANGED <<adminKey, tipRows, jobs, gen, enr, feedOut, pipeFaults>>
    /\ UNCHANGED outsidePipe

\* enrich-tip GET lines 368-405: one tip of the batch settles: the image
\* fetch, then prisma.tip.update with status published (a rejection is
\* collected by Promise.allSettled); after the last one the handler answers
BatEnrichOne(b) ==
    /\ bat[b].pc = "enrich"
    /\ LET t == bat[b].drafts[bat[b].idx]
           last == bat[b].idx = Len(bat[b].drafts)
       IN  \E img \in BOOLEAN, ok \in BOOLEAN :
            /\ ~ok => pipeFaults < MaxPipeFaults
            /\ pipeFaults' = IF ok THEN pipeFaults ELSE pipeFaults + 1
            /\ tipRows' = IF ok
                          THEN [tipRows EXCEPT ![t] =
                                   [@ EXCEPT !.status = BatchEnrichStatus,
                                             !.image = IF img THEN TRUE ELSE @,
                                             !.enriched = TRUE]]
                          ELSE tipRows
            /\ bat' = [bat EXCEPT ![b] =
                   [@ EXCEPT !.idx = @ + 1,
                             !.enriched = IF ok THEN @ + 1 ELSE @,
                             !.failed = IF ok THEN @ ELSE @ + 1,
                             !.pc = IF last THEN "done" ELSE @,
                             !.resp = IF last THEN "batchDone" ELSE @]]
    /\ UNCHANGED <<adminKey, jobs, gen, enr, feedOut>>
    /\ UNCHANGED outsidePipe

\* enrich-tip GET lines 406-416: findMany rejects, the catch answers 500
BatStoreThrows(b) ==
    /\ bat[b].pc = "find"
    /\ pipeFaults < MaxPipeFaults
    /\ pipeFaults' = pipeFaults + 1
    /\ bat' = [bat EXCEPT ![b].pc = "done", ![b].resp = "error"]
    /\ UNCHANGED <<adminKey, tipRows, jobs, gen, enr, feedOut>>
    /\ UNCHANGED outsidePipe

\* tips/[id] GET lines 4-60: findUnique, then viewsCount increment
ViewTip ==
    /\ \E t \in 1 .. Len(tipRows) :
        /\ tipRows[t].views < MaxViews
        /\ \A u \in 1 .. Len(tipRows) : tipRows[u].views = 0
        /\ tipRows' = [tipRows EXCEPT ![t].views = @ + 1]
    /\ UNCHANGED <<adminKey, jobs, gen, enr, bat, feedOut, pipeFaults>>
    /\ UNCHANGED outsidePipe

\* the rows the feed query matches, newest first (orderBy createdAt desc)
RECURSIVE FeedRowsFrom(_)
FeedRowsFrom(t) ==
    IF t < 1 THEN <<>>
    ELSE (IF FeedVisible(tipRows[t])
          THEN <<[id |-> t, status |-> tipRows[t].status, jobId |-> tipRows[t].jobId,
                  enriched |-> tipRows[t].enriched]>>
          ELSE <<>>) \o FeedRowsFrom(t - 1)

\* tips GET lines 4-67 (no cursor): findMany with take limit + 1; the extra
\* row, when there is one, becomes nextCursor
FeedQuery ==
    /\ \E limit \in 1 .. MaxLimit :
        LET all == FeedRowsFrom(Len(tipRows))
            got == SubSeq(all, 1, Min(Len(all), limit + 1))
        IN  feedOut' = IF Len(got) > limit
                       THEN [limit |-> limit, items |-> SubSeq(got, 1, limit),
                             nextCursor |-> got[limit + 1].id]
                       ELSE [limit |-> limit, items |-> got, nextCursor |-> 0]
    /\ UNCHANGED <<adminKey, tipRows, jobs, gen, enr, bat, pipeFaults>>
    /\ UNCHANGED outsidePipe

PipeIdle ==
    /\ adminKey = TRUE
    /\ tipRows = <<>>
    /\ jobs = <<>>
    /\ gen = [i \in Gens |-> IdleGen]
    /\ enr = [e \in Enrs |-> IdleEnr]
    /\ bat = [b \in Bats |-> IdleBat]
    /\ feedOut = NoFeed
    /\ pipeFaults = 0

(***************************************************************************)
(* The fan-out of one invocation of the seeded dispatch variant (part_006  *)
(* lines 233-408): ledger upsert, recipient query, send loop, completion.  *)
(* Recipients are numbered 1 .. users in the order of the query result.    *)
(***************************************************************************)
\* errors.slice(0, 10)
ERROR_SAMPLE == 10

\* the whole array in place of its first entries
slice_whole(s, begin, end) == s

\* Array.prototype.slice(begin, end), for 0 <= begin
slice(s, begin, end) == SubSeq(s, begin + 1, Min(end, Len(s)))

\* errors.length > 0 ? errors.slice(0, 10) : undefined
StoredErrors(errors) ==
    IF Len(errors) > 0 THEN slice(errors, 0, ERROR_SAMPLE) ELSE <<>>

\* what one pass of the loop body ends in: the token check fails, the ticket
\* is ok, the ticket is an error (or missing), sendPushNotification throws
SendOutcomes == {"invalidToken", "ok", "ticketError", "threw"}

NoLoopRow == [status |-> "absent", sentCount |-> 0, errorCount |-> 0, errors |-> <<>>]

IdleLoop ==
    [pc |-> "upsert", users |-> 0, idx |-> 0, sentCount |-> 0, errorCount |-> 0,
     errors |-> <<>>, resp |-> "none", faulted |-> FALSE]

\* part_006 lines 233-251: prisma.dailyPush.upsert sets status sending
LoopUpsert ==
    /\ loop.pc = "upsert"
    /\ loopRow' = [loopRow EXCEPT !.status = "sending"]
    /\ loop' = [loop EXCEPT !.pc = "fetchUsers"]
    /\ UNCHANGED outsideLoop

\* part_006 lines 254-265: the users with a push token
LoopFetchUsers ==
    /\ loop.pc = "fetchUsers"
    /\ \E n \in 0 .. MaxRecipients :
        loop' = [loop EXCEPT !.users = n,
                             !.pc = IF n = 0 THEN "completeEmpty" ELSE "send"]
    /\ UNCHANGED <<loopRow, outsideLoop>>

\* part_006 lines 265-289: no recipients, the row is completed with sentCount 0
LoopCompleteEmpty ==
    /\ loop.pc = "completeEmpty"
    /\ loopRow' = [loopRow EXCEPT !.status = "completed", !.sentCount = 0]
    /\ loop' = [loop EXCEPT !.pc = "done", !.resp = "success"]
    /\ UNCHANGED outsideLoop

\* part_006 lines 305-344: one pass of the loop body
LoopSendOne ==
    /\ loop.pc = "send"
    /\ \E o \in SendOutcomes :
        LET u == loop.idx + 1
        IN  loop' = [loop EXCEPT
                !.idx = u,
                !.sentCount = IF o = "ok" THEN @ + 1 ELSE @,
                !.errorCount = IF o = "ok" THEN @ ELSE @ + 1,
                !.errors = IF o = "ok" THEN @ ELSE Append(@, u),
                !.pc = IF u = loop.users THEN "complete" ELSE "send"]
    /\ UNCHANGED <<loopRow, outsideLoop>>

\* part_006 lines 346-385: the row is completed with the counts and the
\* error sample
LoopComplete ==
    /\ loop.pc = "complete"
    /\ loopRow' = [status |-> "completed", sentCount |-> loop.sentCount,
                   errorCount |-> loop.errorCount,
                   errors |-> StoredErrors(loop.errors)]
    /\ loop' = [loop EXCEPT !.pc = "done", !.resp = "success"]
    /\ UNCHANGED outsideLoop

\* a store call of the try block rejects: control moves to the catch
LoopStoreThrows ==
    /\ loop.pc \in {"upsert", "fetchUsers", "completeEmpty", "complete"}
    /\ ~loop.faulted
    /\ loop' = [loop EXCEPT !.pc = "catch", !.faulted = TRUE]
    /\ UNCHANGED <<loopRow, outsideLoop>>

\* part_006 lines 386-417: updateMany on the (date, slot) row in status
\* sending; a rejection of the updateMany is logged and swallowed
LoopCatch ==
    /\ loop.pc = "catch"
    /\ \E ok \in BOOLEAN :
        loopRow' = IF ok /\ loopRow.status = "sending"
                   THEN [loopRow EXCEPT !.status = "failed"]
                   ELSE loopRow
    /\ loop' = [loop EXCEPT !.pc = "done", !.resp = "error"]
    /\ UNCHANGED outsideLoop

LoopIdle == loop = IdleLoop /\ loopRow = NoLoopRow

(***************************************************************************)
(* The half-hourly dispatch variant (send-daily-push/route.ts), on one IST *)
(* day: the DailyPush rows of the day are identified by their hour field,  *)
(* in which the handler stores the slot index.                             *)
(***************************************************************************)
START_HOUR_halfHourly == 6

END_HOUR_halfHourly == 23

TOTAL_SLOTS == 30

\* the half hours of the IST day the model walks through, from the first
\* slot of the day (06:00) on
HalfInstants == 2 * START_HOUR_halfHourly .. 2 * START_HOUR_halfHourly + MaxHalfTicks

HalfInvs == 1 .. MaxHalfInv

\* getCurrentHour, getCurrentMinute at half hour t of the IST day
HalfHour(t) == t \div 2

HalfMinute(t) == 30 * (t % 2)

\* route.ts getSlotIndex (lines 96-100)
getSlotIndex_halfHourly(hour, minute) ==
    (hour - START_HOUR_halfHourly) * 2 + (IF minute >= 30 THEN 1 ELSE 0)

\* the values the hour field is written or queried with
HalfKeys ==
    {getSlotIndex_halfHourly(HalfHour(t), HalfMinute(t)) : t \in HalfInstants}
        \cup {HalfHour(t) : t \in HalfInstants}

IdleHalf ==
    [pc |-> "idle", cred |-> "none", hour |-> 0, minute |-> 0, slot |-> 0,
     upserted |-> FALSE, resp |-> "none"]

\* route.ts lines 108-135: the time is read, then the secret is checked
HalfStart(i) ==
    /\ half[i].pc = "idle"
    /\ \A j \in HalfInvs : j < i => half[j].pc # "idle"
    /\ \E cred \in Creds :
        half' = [half EXCEPT ![i] =
            IF CronAuthorized(cred)
            THEN [@ EXCEPT !.pc = "findExisting", !.cred = cred,
                           !.hour = HalfHour(halfClock),
                           !.minute = HalfMinute(halfClock),
                           !.slot = getSlotIndex_halfHourly(HalfHour(halfClock),
                                                            HalfMinute(halfClock))]
            ELSE [@ EXCEPT !.pc = "done", !.cred = cred, !.resp = "unauthorized"]]
    /\ UNCHANGED <<halfClock, halfRows, halfFaults, outsideHalf>>

\* route.ts lines 137-165: a completed row of (today, slot) ends the request
HalfFindExisting(i) ==
    /\ half[i].pc = "findExisting"
    /\ half' = [half EXCEPT ![i] =
           IF halfRows[half[i].slot] = "completed"
           THEN [@ EXCEPT !.pc = "done", !.resp = "skipped"]
           ELSE [@ EXCEPT !.pc = "fetchTips"]]
    /\ UNCHANGED <<halfClock, halfRows, halfFaults, outsideHalf>>

\* route.ts lines 181-221: what the handler finds at index currentSlot of the
\* n published tips it fetched
TipForSlot(slot, n) ==
    IF n = 0 THEN "noTips"
    ELSE IF slot >= n THEN "skipped"
    ELSE IF slot < 0 THEN "undefined"
    ELSE "tip"

\* route.ts lines 167-224: today's published tips, at most TOTAL_SLOTS of
\* them, and the tip of index currentSlot; a negative index yields undefined,
\* whose id is then read
HalfFetchTips(i) ==
    /\ half[i].pc = "fetchTips"
    /\ \E n \in 0 .. TOTAL_SLOTS :
        half' = [half EXCEPT ![i] =
            CASE TipForSlot(half[i].slot, n) = "noTips" ->
                     [@ EXCEPT !.pc = "done", !.resp = "noTips"]
              [] TipForSlot(half[i].slot, n) = "skipped" ->
                     [@ EXCEPT !.pc = "done", !.resp = "skipped"]
              [] TipForSlot(half[i].slot, n) = "undefined" -> [@ EXCEPT !.pc = "catch"]
              [] OTHER -> [@ EXCEPT !.pc = "upsert"]]
    /\ UNCHANGED <<halfClock, halfRows, halfFaults, outsideHalf>>

\* route.ts lines 226-246: prisma.dailyPush.upsert sets status sending
HalfUpsert(i) ==
    /\ half[i].pc = "upsert"
    /\ halfRows' = [halfRows EXCEPT ![half[i].slot] = "sending"]
    /\ half' = [half EXCEPT ![i].pc = "deliver", ![i].upserted = TRUE]
    /\ UNCHANGED <<halfClock, halfFaults, outsideHalf>>

\* route.ts lines 248-382: recipients, sends and the update of the row, by
\* its id, to completed
HalfDeliver(i) ==
    /\ half[i].pc = "deliver"
    /\ halfRows' = [halfRows EXCEPT ![half[i].slot] = "completed"]
    /\ half' = [half EXCEPT ![i].pc = "done", ![i].resp = "success"]
    /\ UNCHANGED <<halfClock, halfFaults, outsideHalf>>

\* an awaited call of the try block rejects: control moves to the catch
HalfThrows(i) ==
    /\ half[i].pc \in {"findExisting", "fetchTips", "upsert", "deliver"}
    /\ halfFaults < MaxHalfFaults
    /\ halfFaults' = halfFaults + 1
    /\ half' = [half EXCEPT ![i].pc = "catch"]
    /\ UNCHANGED <<halfClock, halfRows, outsideHalf>>

\* route.ts lines 383-411: updateMany where date: today, hour: currentHour,
\* status: sending; a rejection of the updateMany is logged and swallowed
HalfCatch(i) ==
    /\ half[i].pc = "catch"
    /\ \E ok \in BOOLEAN :
        /\ ~ok => halfFaults < MaxHalfFaults
        /\ halfFaults' = IF ok THEN halfFaults ELSE halfFaults + 1
        /\ halfRows' = IF ok
                       THEN [k \in HalfKeys |->
                               IF k = half[i].hour /\ halfRows[k] = "sending"
                               THEN "failed" ELSE halfRows[k]]
                       ELSE halfRows
    /\ half' = [half EXCEPT ![i].pc = "done", ![i].resp = "error"]
    /\ UNCHANGED <<halfClock, outsideHalf>>

\* half an hour passes
HalfTick ==
    /\ halfClock + 1 \in HalfInstants
    /\ halfClock' = halfClock + 1
    /\ UNCHANGED <<halfRows, half, halfFaults, outsideHalf>>

HalfIdle ==
    /\ halfClock = 2 * START_HOUR_halfHourly
    /\ halfRows = [k \in HalfKeys |-> "absent"]
    /\ half = [i \in HalfInvs |-> IdleHalf]
    /\ halfFaults = 0

(***************************************************************************)
(* The send loop of one dispatch invocation with the recipients' tokens    *)
(* (part_006 lines 301-345, push.ts lines 17-52).  The recipients are      *)
(* 1 .. MaxFan in the order of the user query; a token is a well-formed    *)
(* Expo token, a malformed string or the empty string.                     *)
(***************************************************************************)
Fans == 1 .. MaxFan

TokenKinds == {"valid", "malformed", "empty"}

\* Expo.isExpoPushToken
isExpoPushToken(token) == token = "valid"

\* !user.pushToken alone, without the format check
TokenRejected_emptyOnly(token) == token = "empty"

\* !user.pushToken || !Expo.isExpoPushToken(user.pushToken)
TokenRejected(token) == token = "empty" \/ ~isExpoPushToken(token)

\* what the call of sendPushNotification ends in: a ticket with status ok,
\* a ticket with status error, null (push.ts lines 20-23, 48-51), an exception
CallOutcomes == {"ok", "error", "null", "threw"}

IdleFan ==
    [pc |-> "send", idx |-> 1, sentCount |-> 0, errorCount |-> 0, errors |-> <<>>,
     calls |-> [u \in Fans |-> 0], outcome |-> [u \in Fans |-> "none"],
     resp |-> [sentCount |-> 0, errorCount |-> 0, kind |-> "none"]]

\* the loop moves to the next recipient, or ends
FanAdvance(rec) ==
    [rec EXCEPT !.idx = @ + 1, !.pc = IF rec.idx = MaxFan THEN "complete" ELSE "send"]

\* an exception of the send call leaves the loop
FanAfterCall_noCatch(rec, u, o) ==
    IF o = "threw"
    THEN [rec EXCEPT !.pc = "complete", !.outcome[u] = o]
    ELSE FanAdvance([rec EXCEPT
             !.outcome[u] = o,
             !.sentCount = IF o = "ok" THEN @ + 1 ELSE @,
             !.errorCount = IF o = "ok" THEN @ ELSE @ + 1,
             !.errors = IF o = "ok" THEN @ ELSE Append(@, u)])

\* part_006 lines 325-344: the ticket is counted, an exception is caught and
\* counted, and the loop goes on
FanAfterCall(rec, u, o) ==
    FanAdvance([rec EXCEPT
        !.outcome[u] = o,
        !.sentCount = IF o = "ok" THEN @ + 1 ELSE @,
        !.errorCount = IF o = "ok" THEN @ ELSE @ + 1,
        !.errors = IF o = "ok" THEN @ ELSE Append(@, u)])

\* part_006 lines 306-310: the token check fails, the recipient is counted as
\* an error and the loop continues without a send call
FanRejectToken ==
    /\ fan.pc = "send"
    /\ TokenRejected(fanTokens[fan.idx])
    /\ fan' = FanAdvance([fan EXCEPT !.outcome[fan.idx] = "invalid",
                                     !.errorCount = @ + 1,
                                     !.errors = Append(@, fan.idx)])
    /\ UNCHANGED <<fanTokens, outsideFan>>

\* part_006 lines 312-344: sendPushNotification is called for the recipient
FanSend ==
    /\ fan.pc = "send"
    /\ ~TokenRejected(fanTokens[fan.idx])
    /\ \E o \in CallOutcomes :
        \* push.ts lines 20-23: a token that is not an Expo token yields null
        /\ ~isExpoPushToken(fanTokens[fan.idx]) => o = "null"
        /\ fan' = FanAfterCall([fan EXCEPT !.calls[fan.idx] = @ + 1], fan.idx, o)
    /\ UNCHANGED <<fanTokens, outsideFan>>

\* part_006 lines 346-385: the counts go into the row and the response
FanComplete ==
    /\ fan.pc = "complete"
    /\ fan' = [fan EXCEPT !.pc = "done",
                          !.resp = [sentCount |-> fan.sentCount,
                                    errorCount |-> fan.errorCount, kind |-> "success"]]
    /\ UNCHANGED <<fanTokens, outsideFan>>

FanIdle == fan = IdleFan /\ fanTokens = [u \in Fans |-> "valid"]

(***************************************************************************)
(* A client walking the feed (tips GET, tips/route.ts lines 4-67): the     *)
(* first request has no cursor, every further request carries the          *)
(* nextCursor of the page before.  The Tip table holds tips 1 .. n in       *)
(* creation order and does not change during the walk.                      *)
(***************************************************************************)
\* parseInt(searchParams.get("limit") || "20")
DEFAULT_LIMIT == 20

\* Math.min(..., 50)
LIMIT_CAP == 50

\* the limit parameter: <<>> when the request has none, <<k>> for limit=k
WalkLimitParams ==
    {<<>>} \cup {<<k>> : k \in {-1, 0, 1, 2, 3, LIMIT_CAP, LIMIT_CAP + 1, LIMIT_CAP + 10}}

\* the category parameter: <<>> when the request has none
WalkCategories == {<<>>, <<"a">>, <<"b">>}

\* every seventh tip is still a draft
WalkTipStatus(t) == IF t % 7 = 0 THEN "draft" ELSE "published"

\* the tips' categories alternate, in pairs
WalkTipCategory(t) == IF (t \div 2) % 2 = 0 THEN "a" ELSE "b"

\* tips/route.ts line 6
FeedLimit(param) ==
    Min(IF param = <<>> THEN DEFAULT_LIMIT ELSE param[1], LIMIT_CAP)

\* the where clause: status published and, when given, the category
WalkMatches(t, category) ==
    /\ WalkTipStatus(t) = "published"
    /\ category # <<>> => WalkTipCategory(t) = category[1]

\* the matching tips from tip t down, newest first (orderBy createdAt desc)
RECURSIVE WalkRowsFrom(_, _)
WalkRowsFrom(t, category) ==
    IF t < 1 THEN <<>>
    ELSE (IF WalkMatches(t, category) THEN <<t>> ELSE <<>>)
             \o WalkRowsFrom(t - 1, category)

\* findMany({ where, take, cursor, orderBy }) for take >= 0: the cursor row
\* is the first row returned
WalkFindMany(n, category, cursor, take) ==
    LET rows == WalkRowsFrom(IF cursor = 0 THEN n ELSE cursor, category)
    IN  SubSeq(rows, 1, Min(Len(rows), take))

IdleWalk ==
    [pc |-> "walking", n |-> 0, limit |-> <<>>, category |-> <<>>, cursor |-> 0,
     seen |-> <<>>, lastLen |-> 0, maxLen |-> 0, pages |-> 0]

\* tips GET lines 4-67: one request of the walk
WalkPage ==
    /\ walk.pc = "walking"
    /\ LET limit == FeedLimit(walk.limit)
           tips == WalkFindMany(walk.n, walk.category, walk.cursor, limit + 1)
           more == Len(tips) > limit
           \* tips.pop() on an empty array yields undefined
           nextCursor == IF more /\ Len(tips) > 0 THEN tips[Len(tips)] ELSE 0
           items == IF more /\ Len(tips) > 0 THEN SubSeq(tips, 1, Len(tips) - 1) ELSE tips
       IN  walk' = [walk EXCEPT
               !.seen = IF Len(items) = 0 THEN @ ELSE @ \o items,
               !.lastLen = Len(items),
               !.maxLen = IF Len(items) > @ THEN Len(items) ELSE @,
               !.pages = IF @ < 2 THEN @ + 1 ELSE @,
               !.cursor = nextCursor,
               !.pc = IF nextCursor = 0 THEN "end" ELSE "walking"]
    /\ UNCHANGED outsideWalk

WalkIdle == walk = IdleWalk


(***************************************************************************)
(* The half-hourly variant's slot resolution over a whole IST day: at      *)
(* every minute the handler resolves its slot (route.ts line 112) and      *)
(* looks up the tip of that index among the tips it fetched.               *)
(***************************************************************************)
DayMinutes == 0 .. 24 * 60 - 1

\* getCurrentHour, getCurrentMinute at minute m of the IST day
DayHour(m) == m \div 60

DayMinute(m) == m % 60

IdleDay == [pc |-> "clock", m |-> 0, slot |-> 0, n |-> 0, found |-> "none"]

\* route.ts lines 109-112: currentSlot = getSlotIndex(currentHour, currentMinute)
DayResolve ==
    /\ day.pc = "clock"
    /\ day' = [day EXCEPT !.pc = "resolved",
                          !.slot = getSlotIndex_halfHourly(DayHour(day.m), DayMinute(day.m))]
    /\ UNCHANGED outsideDay

\* route.ts lines 167-221: findMany with take: TOTAL_SLOTS, then the lookup
DayFetchTips ==
    /\ day.pc = "resolved"
    /\ \E n \in 0 .. TOTAL_SLOTS :
        day' = [day EXCEPT !.pc = "fetched", !.n = n, !.found = TipForSlot(day.slot, n)]
    /\ UNCHANGED outsideDay

\* the next invocation runs a minute later
DayTick ==
    /\ day.pc = "fetched"
    /\ day.m + 1 \in DayMinutes
    /\ day' = [IdleDay EXCEPT !.m = day.m + 1]
    /\ UNCHANGED outsideDay

DayIdle == day = IdleDay


(***************************************************************************)
(* Lazy user creation: the share action POST (tips/[id]/action/route.ts),  *)
(* the interests POST and the push-token POST.  A User row is its id and   *)
(* its email; the id is the primary key and the email is a unique field    *)
(* (push-token/route.ts line 18 looks a user up by it with findUnique).    *)
(* The Action and Tip writes that follow in the share handler touch no     *)
(* User row; SpecLike has them.                                            *)
(***************************************************************************)
UserCalls == 1 .. MaxUserCalls

ClientIds == 1 .. NumClientIds

Endpoints == {"action", "interests", "pushToken"}

\* an id the client supplied, and an id the store generated (the schema's
\* default) for a create that passes none
ClientId(k) == [kind |-> "client", n |-> k]

GeneratedId(n) == [kind |-> "generated", n |-> n]

\* `${user_id}@anonymous.local` and `${user_id}@device.tldev`
AnonymousEmail(k) == [domain |-> "anonymous.local", n |-> k]

DeviceEmail(k) == [domain |-> "device.tldev", n |-> k]

IdleCall ==
    [pc |-> "idle", endpoint |-> "none", user_id |-> 0, after |-> {}, found |-> FALSE,
     created |-> FALSE, resp |-> "none"]

\* the findUnique of each endpoint: by id (action line 23, interests line
\* 16), by email (push-token line 18)
UserFound(endpoint, k) ==
    IF endpoint = "pushToken"
    THEN \E row \in userRows : row.email = DeviceEmail(k)
    ELSE \E row \in userRows : row.id = ClientId(k)

\* the data of prisma.user.create: action lines 25-30 pass id and email,
\* interests lines 19-24 and push-token lines 21-27 pass an email and no id
NewUserRow(endpoint, k) ==
    CASE endpoint = "action" -> [id |-> ClientId(k), email |-> AnonymousEmail(k)]
      [] endpoint = "interests" ->
             [id |-> GeneratedId(Cardinality(userRows) + 1), email |-> AnonymousEmail(k)]
      [] endpoint = "pushToken" ->
             [id |-> GeneratedId(Cardinality(userRows) + 1), email |-> DeviceEmail(k)]

\* the unique constraints a create must meet
UniqueViolation(row) ==
    \E other \in userRows : other.id = row.id \/ other.email = row.email

\* the body is read and validated: the call carries a user_id; after is the
\* set of calls that had returned when this one arrived
CallStart(c) ==
    /\ ucall[c].pc = "idle"
    /\ \A d \in UserCalls : d < c => ucall[d].pc # "idle"
    /\ \E endpoint \in Endpoints, k \in ClientIds :
        ucall' = [ucall EXCEPT ![c] =
                      [@ EXCEPT !.pc = "find", !.endpoint = endpoint, !.user_id = k,
                                !.after = {d \in UserCalls : ucall[d].pc = "done"}]]
    /\ UNCHANGED <<userRows, outsideUsr>>

\* prisma.user.findUnique
CallFind(c) ==
    /\ ucall[c].pc = "find"
    /\ ucall' = [ucall EXCEPT ![c].pc = "write",
                              ![c].found = UserFound(ucall[c].endpoint, ucall[c].user_id)]
    /\ UNCHANGED <<userRows, outsideUsr>>

\* if (!user) prisma.user.create, else (interests, push-token) user.update;
\* a rejected create is answered with status 500 by the handler's catch.
\* Rows are never deleted, so the update of a row that was found succeeds.
CallWrite(c) ==
    /\ ucall[c].pc = "write"
    /\ LET row == NewUserRow(ucall[c].endpoint, ucall[c].user_id)
       IN  IF ucall[c].found
           THEN /\ ucall' = [ucall EXCEPT ![c].pc = "done", ![c].resp = "success"]
                /\ UNCHANGED userRows
           ELSE IF UniqueViolation(row)
           THEN /\ ucall' = [ucall EXCEPT ![c].pc = "done", ![c].resp = "error"]
                /\ UNCHANGED userRows
           ELSE /\ userRows' = userRows \cup {row}
                /\ ucall' = [ucall EXCEPT ![c].pc = "done", ![c].resp = "success",
                                          ![c].created = TRUE]
    /\ UNCHANGED outsideUsr

UsrIdle == userRows = {} /\ ucall = [c \in UserCalls |-> IdleCall]


(***************************************************************************)
(* The post-generation uniqueness pass of generateTips (ai.ts lines        *)
(* 288-329): one loop iteration per step over the array the AI returned.   *)
(***************************************************************************)
\* the strings the AI may return for a key, in either case
TopicStrings == {"rust-wasm", "Rust-Wasm", "bun-test"}

TechStrings == {"rust", "Rust", "bun"}

PatternStrings == {"how-to", "How-To", "versus"}

AiTips == [unique_topic : TopicStrings, primary_tech : TechStrings,
           headline_pattern : PatternStrings]

\* String.prototype.toLowerCase on the strings above
toLowerCase(str) ==
    CASE str = "Rust-Wasm" -> "rust-wasm"
      [] str = "Rust" -> "rust"
      [] str = "How-To" -> "how-to"
      [] OTHER -> str

\* the arrays of at most MaxObjectLen tips
AiObjects == UNION {[1 .. len -> AiTips] : len \in 0 .. MaxObjectLen}

IdleDedup ==
    [pc |-> "loop", object |-> <<>>, idx |-> 1, seenTopics |-> {}, seenTechs |-> {},
     seenPatterns |-> {}, validTips |-> <<>>]

\* ai.ts line 302: the test that skips a tip
IsDuplicate(d, tip) ==
    \/ toLowerCase(tip.unique_topic) \in d.seenTopics
    \/ toLowerCase(tip.primary_tech) \in d.seenTechs

\* ai.ts lines 296-323: one iteration; validTips holds the positions kept
DedupStep ==
    /\ dedup.pc = "loop"
    /\ dedup.idx <= Len(dedup.object)
    /\ LET tip == dedup.object[dedup.idx]
       IN  dedup' =
               IF IsDuplicate(dedup, tip)
               THEN [dedup EXCEPT !.idx = @ + 1]
               ELSE [dedup EXCEPT
                        !.idx = @ + 1,
                        !.seenTopics = @ \cup {toLowerCase(tip.unique_topic)},
                        !.seenTechs = @ \cup {toLowerCase(tip.primary_tech)},
                        !.seenPatterns = @ \cup {toLowerCase(tip.headline_pattern)},
                        !.validTips = Append(@, dedup.idx)]
    /\ UNCHANGED outsideDedup

\* ai.ts lines 325-329: return { tips: validTips }
DedupReturn ==
    /\ dedup.pc = "loop"
    /\ dedup.idx > Len(dedup.object)
    /\ dedup' = [dedup EXCEPT !.pc = "done"]
    /\ UNCHANGED outsideDedup

DedupIdle == dedup = IdleDedup


(***************************************************************************)
(* One batch-enrichment GET with every item of the batch as its own        *)
(* asynchronous task.  enrich-tip/route.ts holds two GET handlers: lines   *)
(* 130-210 map every draft at once ("parallel"), lines 329-418 (and        *)
(* part_008) walk the drafts in slices of batchSize ("grouped").           *)
(***************************************************************************)
batchSize == 3

BatchVariants == {"parallel", "grouped"}

Drafts == 1 .. MaxDrafts

IdleBatch ==
    [variant |-> "grouped", pc |-> "loop", total |-> 0, i |-> 0,
     item |-> [j \in Drafts |-> "waiting"], started |-> [j \in Drafts |-> 0],
     results |-> <<>>, resp |-> [kind |-> "none", enriched |-> 0, failed |-> 0, total |-> 0]]

\* draftTips.slice(i, i + batchSize) as positions; the parallel handler maps
\* the whole array
BatchSlice(b) ==
    IF b.variant = "grouped"
    THEN {j \in Drafts : b.i < j /\ j <= Min(b.i + batchSize, b.total)}
    ELSE {j \in Drafts : j <= b.total}

Settled == {"fulfilled", "rejected"}

\* the items that have started and not settled
InFlight(b) == {j \in Drafts : b.item[j] \in {"fetching", "updating"}}

\* Promise.all: rejects as soon as one task rejects
allSettled_all(b, tasks) ==
    IF \E j \in tasks : b.item[j] = "rejected" THEN "rejected"
    ELSE IF \A j \in tasks : b.item[j] = "fulfilled" THEN "resolved"
    ELSE "pending"

\* Promise.allSettled: resolves once every task of the slice has settled
allSettled(b, tasks) ==
    IF \A j \in tasks : b.item[j] \in Settled THEN "resolved" ELSE "pending"

\* results of the slice in array order
RECURSIVE SliceResults(_, _, _)
SliceResults(b, j, last) ==
    IF j > last THEN <<>> ELSE <<b.item[j]>> \o SliceResults(b, j + 1, last)

\* batch.map(async (tip) => ...): every task of the slice runs up to its
\* first await, the image fetch
BatchMap ==
    /\ batch.pc = "loop"
    /\ batch.i < batch.total
    /\ batch' = [batch EXCEPT
           !.pc = "await",
           !.item = [j \in Drafts |-> IF j \in BatchSlice(batch) THEN "fetching" ELSE @[j]],
           !.started = [j \in Drafts |-> IF j \in BatchSlice(batch) THEN @[j] + 1 ELSE @[j]]]
    /\ UNCHANGED outsideGrp

\* the fetches of one task resolve (a rejection is caught and gives null),
\* and prisma.tip.update is called
BatchItemFetched(j) ==
    /\ batch.item[j] = "fetching"
    /\ batch' = [batch EXCEPT !.item[j] = "updating"]
    /\ UNCHANGED outsideGrp

\* prisma.tip.update of one task resolves or rejects
BatchItemSettles(j) ==
    /\ batch.item[j] = "updating"
    /\ \E outcome \in Settled : batch' = [batch EXCEPT !.item[j] = outcome]
    /\ UNCHANGED outsideGrp

\* the await on the slice's promise returns: results.push(...batchResults),
\* then the delay when more drafts remain; a rejection goes to the catch
BatchAwaited ==
    /\ batch.pc = "await"
    /\ LET tasks == BatchSlice(batch)
           last == IF batch.variant = "grouped"
                   THEN Min(batch.i + batchSize, batch.total) ELSE batch.total
           size == IF batch.variant = "grouped" THEN batchSize ELSE batch.total
       IN  /\ allSettled(batch, tasks) # "pending"
           /\ batch' =
                 IF allSettled(batch, tasks) = "rejected"
                 THEN [batch EXCEPT !.pc = "done", !.resp.kind = "error"]
                 ELSE [batch EXCEPT
                          !.results = @ \o SliceResults(batch, batch.i + 1, last),
                          !.pc = IF batch.variant = "grouped" /\ batch.i + size < batch.total
                                 THEN "delay" ELSE "loop",
                          !.i = IF batch.variant = "grouped" /\ batch.i + size < batch.total
                                THEN @ ELSE @ + size]
    /\ UNCHANGED outsideGrp

\* setTimeout(resolve, 500) fires and the loop moves to the next slice
BatchDelay ==
    /\ batch.pc = "delay"
    /\ batch' = [batch EXCEPT !.pc = "loop", !.i = @ + batchSize]
    /\ UNCHANGED outsideGrp

\* the counts of fulfilled and rejected results are answered with the total
BatchReturn ==
    /\ batch.pc = "loop"
    /\ batch.i >= batch.total
    /\ batch' = [batch EXCEPT
           !.pc = "done",
           !.resp = [kind |-> IF batch.total = 0 THEN "noDrafts" ELSE "batchDone",
                     enriched |-> Cardinality({r \in 1 .. Len(batch.results) :
                                                  batch.results[r] = "fulfilled"}),
                     failed |-> Cardinality({r \in 1 .. Len(batch.results) :
                                                batch.results[r] = "rejected"}),
                     total |-> batch.total]]
    /\ UNCHANGED outsideGrp

GrpIdle == batch = IdleBatch


(***************************************************************************)
(* The admin send-push POST from its payloads on (route.ts lines 66-86)    *)
(* and sendBulkPushNotifications (push.ts lines 54-89).  A user's token is *)
(* none (null), malformed or valid; a message is the token it is sent to.  *)
(***************************************************************************)
BulkTokenKinds == {"none", "malformed", "valid"}

RECURSIVE FilterSeq(_, _)
\* Array.prototype.filter with the test keep, a set of values
FilterSeq(seq, keep) ==
    IF seq = <<>> THEN <<>>
    ELSE (IF Head(seq) \in keep THEN <<Head(seq)>> ELSE <<>>) \o FilterSeq(Tail(seq), keep)

\* users.filter((user) => user.pushToken) of the admin route
BulkPayloads(users) == FilterSeq(users, {"malformed", "valid"})

\* payloads.filter((p) => Expo.isExpoPushToken(p.pushToken))
BulkMessages(payloads) == FilterSeq(payloads, {t \in BulkTokenKinds : isExpoPushToken(t)})

\* expo.chunkPushNotifications: the number of chunks, and chunk c of the
\* messages, consecutive runs of at most ChunkLimit messages
ChunkCount(messages) == (Len(messages) + ChunkLimit - 1) \div ChunkLimit

Chunk(messages, c) ==
    SubSeq(messages, (c - 1) * ChunkLimit + 1, Min(c * ChunkLimit, Len(messages)))

TicketStatus == {"ok", "error"}

IdleBulk ==
    [pc |-> "start", users |-> <<>>, payloads |-> <<>>, messages |-> <<>>, c |-> 1,
     tickets |-> <<>>, sent |-> <<>>, attempts |-> <<>>, threw |-> {},
     resp |-> [kind |-> "none", sent |-> 0, errors |-> 0, total |-> 0]]

\* the send of the current chunk threw with no handler around it: the
\* rejection reaches the catch of the route, which answers 500
AfterChunkThrows_uncaught(b) ==
    [b EXCEPT !.pc = "done", !.threw = @ \cup {b.c}, !.resp.kind = "error"]

\* push.ts lines 81-83: the catch logs and the loop goes on
AfterChunkThrows(b) == [b EXCEPT !.c = @ + 1, !.threw = @ \cup {b.c}]

\* route.ts lines 66-74 and push.ts lines 57-76: payloads, messages; with no
\* message the function returns [] at once
BulkStart ==
    /\ bulk.pc = "start"
    /\ LET payloads == BulkPayloads(bulk.users)
           messages == BulkMessages(payloads)
       IN  bulk' = [bulk EXCEPT !.payloads = payloads, !.messages = messages,
                                !.attempts = [c \in 1 .. ChunkCount(messages) |-> 0],
                                !.pc = IF Len(messages) = 0 THEN "answer" ELSE "chunks"]
    /\ UNCHANGED outsideBulk

\* push.ts lines 78-84: one pass of the loop over the chunks:
\* sendPushNotificationsAsync gives one ticket per message or throws
BulkSendChunk ==
    /\ bulk.pc = "chunks"
    /\ bulk.c <= ChunkCount(bulk.messages)
    /\ LET chunk == Chunk(bulk.messages, bulk.c)
           tried == [bulk EXCEPT !.attempts[bulk.c] = @ + 1, !.sent = @ \o chunk]
       IN  \/ \E ticketChunk \in [1 .. Len(chunk) -> TicketStatus] :
                 bulk' = [tried EXCEPT !.tickets = @ \o ticketChunk, !.c = @ + 1]
           \/ bulk' = AfterChunkThrows(tried)
    /\ UNCHANGED outsideBulk

\* push.ts line 87: return tickets
BulkReturn ==
    /\ bulk.pc = "chunks"
    /\ bulk.c > ChunkCount(bulk.messages)
    /\ bulk' = [bulk EXCEPT !.pc = "answer"]
    /\ UNCHANGED outsideBulk

\* route.ts lines 76-86: the counts of ok and error tickets are answered
BulkAnswer ==
    /\ bulk.pc = "answer"
    /\ bulk' = [bulk EXCEPT
           !.pc = "done",
           !.resp = [kind |-> "success",
                     sent |-> Cardinality({k \in 1 .. Len(bulk.tickets) :
                                              bulk.tickets[k] = "ok"}),
                     errors |-> Cardinality({k \in 1 .. Len(bulk.tickets) :
                                                bulk.tickets[k] = "error"}),
                     total |-> Len(bulk.users)]]
    /\ UNCHANGED outsideBulk

BulkIdle == bulk = IdleBulk


(***************************************************************************)
(* The half-hourly dispatch with the identity of the tip it sends: the     *)
(* day's tips in createdAt order, each draft or published, one invocation  *)
(* of the handler at a time, recipients present and no store failure.      *)
(***************************************************************************)
DayTips == 1 .. MaxDayTips

ShiftInstants == 2 * START_HOUR_halfHourly .. 2 * START_HOUR_halfHourly + MaxShiftTicks

ShiftSlots ==
    {getSlotIndex_halfHourly(HalfHour(t), HalfMinute(t)) : t \in ShiftInstants}

RECURSIVE PublishedFrom(_, _)
\* findMany({ status: "published", createdAt today }, orderBy createdAt asc)
\* from tip k on
PublishedFrom(status, k) ==
    IF k > MaxDayTips THEN <<>>
    ELSE (IF status[k] = "published" THEN <<k>> ELSE <<>>) \o PublishedFrom(status, k + 1)

\* route.ts lines 172-182: today's published tips, oldest first, take TOTAL_SLOTS
publishedTips(status) ==
    LET all == PublishedFrom(status, 1)
    IN  SubSeq(all, 1, Min(Len(all), TOTAL_SLOTS))

IdleShift ==
    [at |-> 2 * START_HOUR_halfHourly, status |-> [k \in DayTips |-> "draft"],
     pushed |-> [s \in ShiftSlots |-> 0], ran |-> FALSE]

\* a draft of the day is published by an enrichment
ShiftPublish(k) ==
    /\ shift.status[k] = "draft"
    /\ shift' = [shift EXCEPT !.status[k] = "published"]
    /\ UNCHANGED outsideShift

\* route.ts lines 108-382: one invocation: a completed row of the slot ends
\* it; otherwise the tip at index currentSlot of publishedTips is pushed and
\* the row is completed with that tip
ShiftInvoke ==
    /\ ~shift.ran
    /\ LET slot == getSlotIndex_halfHourly(HalfHour(shift.at), HalfMinute(shift.at))
           tips == publishedTips(shift.status)
       IN  shift' =
               IF shift.pushed[slot] # 0 \/ TipForSlot(slot, Len(tips)) # "tip"
               THEN [shift EXCEPT !.ran = TRUE]
               ELSE [shift EXCEPT !.ran = TRUE, !.pushed[slot] = tips[slot + 1]]
    /\ UNCHANGED outsideShift

\* the scheduler's next trigger, half an hour later
ShiftTick ==
    /\ shift.at + 1 \in ShiftInstants
    /\ shift' = [shift EXCEPT !.at = @ + 1, !.ran = FALSE]
    /\ UNCHANGED outsideShift

ShiftIdle == shift = IdleShift

MoreIdle == PipeIdle /\ LoopIdle /\ HalfIdle /\ FanIdle /\ WalkIdle /\ DayIdle /\ UsrIdle /\ DedupIdle /\ GrpIdle /\ BulkIdle /\ ShiftIdle

IdleOutsidePipe == LoopIdle /\ HalfIdle /\ FanIdle /\ WalkIdle /\ DayIdle /\ UsrIdle /\ DedupIdle /\ GrpIdle /\ BulkIdle /\ ShiftIdle

IdleOutsideLoop == PipeIdle /\ HalfIdle /\ FanIdle /\ WalkIdle /\ DayIdle /\ UsrIdle /\ DedupIdle /\ GrpIdle /\ BulkIdle /\ ShiftIdle

IdleOutsideHalf == PipeIdle /\ LoopIdle /\ FanIdle /\ WalkIdle /\ DayIdle /\ UsrIdle /\ DedupIdle /\ GrpIdle /\ BulkIdle /\ ShiftIdle

IdleOutsideFan == PipeIdle /\ LoopIdle /\ HalfIdle /\ WalkIdle /\ DayIdle /\ UsrIdle /\ DedupIdle /\ GrpIdle /\ BulkIdle /\ ShiftIdle

IdleOutsideWalk == PipeIdle /\ LoopIdle /\ HalfIdle /\ FanIdle /\ DayIdle /\ UsrIdle /\ DedupIdle /\ GrpIdle /\ BulkIdle /\ ShiftIdle

IdleOutsideDay == PipeIdle /\ LoopIdle /\ HalfIdle /\ FanIdle /\ WalkIdle /\ UsrIdle /\ DedupIdle /\ GrpIdle /\ BulkIdle /\ ShiftIdle

IdleOutsideUsr == PipeIdle /\ LoopIdle /\ HalfIdle /\ FanIdle /\ WalkIdle /\ DayIdle /\ DedupIdle /\ GrpIdle /\ BulkIdle /\ ShiftIdle

IdleOutsideDedup == PipeIdle /\ LoopIdle /\ HalfIdle /\ FanIdle /\ WalkIdle /\ DayIdle /\ UsrIdle /\ GrpIdle /\ BulkIdle /\ ShiftIdle

IdleOutsideGrp == PipeIdle /\ LoopIdle /\ HalfIdle /\ FanIdle /\ WalkIdle /\ DayIdle /\ UsrIdle /\ DedupIdle /\ BulkIdle /\ ShiftIdle

IdleOutsideBulk == PipeIdle /\ LoopIdle /\ HalfIdle /\ FanIdle /\ WalkIdle /\ DayIdle /\ UsrIdle /\ DedupIdle /\ GrpIdle /\ ShiftIdle

IdleOutsideShift == PipeIdle /\ LoopIdle /\ HalfIdle /\ FanIdle /\ WalkIdle /\ DayIdle /\ UsrIdle /\ DedupIdle /\ GrpIdle /\ BulkIdle

(***************************************************************************)
(* SpecSlot: the resolver evaluated at every minute of MaxDay days         *)
(***************************************************************************)
SlotIdle == clock = 0 /\ slotRes = Resolve(0) /\ slotPrev = Resolve(0)

SelIdle == selIn = [dateString |-> FormatDate(BaseDate), slot |-> 0, n |-> 1] /\ selOut = <<>>

SlotInit ==
    /\ clock \in 0 .. (MaxDay * 1440 - 1)
    /\ slotRes = Resolve(clock)
    /\ slotPrev = Resolve(clock)
    /\ SelIdle
    /\ PushIdle
    /\ LikeIdle
    /\ MoreIdle

\* one minute passes and the endpoint is invoked again
SlotTick ==
    /\ clock + 1 < MaxDay * 1440
    /\ clock' = clock + 1
    /\ slotPrev' = slotRes
    /\ slotRes' = Resolve(clock + 1)
    /\ UNCHANGED <<selVars, pushVars, likeVars, moreVars>>

SlotNext == SlotTick

SpecSlot == SlotInit /\ [][SlotNext]_vars

(***************************************************************************)
(* The resolver's contract, stated on IST local time computed directly     *)
(* from the instant (IST = UTC + 330 minutes), not through the code.       *)
(***************************************************************************)
LocalMinute(t) == (t + 330) % 1440

LocalDay(t) == (t + 330) \div 1440

\* 08:00 .. 01:00 IST, both ends included
InSpecWindow(t) == LocalMinute(t) >= 480 \/ LocalMinute(t) <= 60

\* the IST day on which the window holding t opened
WindowDay(t) == IF LocalMinute(t) >= 480 THEN LocalDay(t) ELSE LocalDay(t) - 1

MinutesIntoWindow(t) ==
    IF LocalMinute(t) >= 480 THEN LocalMinute(t) - 480 ELSE LocalMinute(t) + 960

SpecSlotOf(t) == Min(MinutesIntoWindow(t) \div 34, 29)

SameSpecSlot(t1, t2) ==
    /\ InSpecWindow(t1) /\ InSpecWindow(t2)
    /\ WindowDay(t1) = WindowDay(t2)
    /\ SpecSlotOf(t1) = SpecSlotOf(t2)

\* C4: two instants inside the same slot of the same daily window resolve
\* to the same slot index and the same date string, the slot that contains
\* local midnight included.  (Stated on consecutive minutes: equality along
\* a slot follows by transitivity.)
C4_SameSlotSameKey ==
    SameSpecSlot(slotPrev.at, slotRes.at)
        => /\ slotPrev.currentSlot = slotRes.currentSlot
           /\ slotPrev.today = slotRes.today

\* C5: the date string of an in-window instant is the IST calendar date on
\* which its window opened; 00:00-01:00 IST is filed under the previous day.
C5_DateIsWindowStart ==
    (InSpecWindow(slotRes.at) /\ WindowDay(slotRes.at) >= 0)
        => slotRes.today = FormatDate(AddDays(BaseDate, WindowDay(slotRes.at)))

\* C7: for every instant of the 08:00-01:00 window the slot index is
\* min(floor(minutes since 08:00 / 34), 29), lies in 0..29, does not decrease
\* while the instant advances through one window, is 0 at 08:05 and 29 at
\* 00:50.
C7_SlotFormula ==
    InSpecWindow(slotRes.at)
        => /\ slotRes.currentSlot = Min(MinutesIntoWindow(slotRes.at) \div 34, 29)
           /\ slotRes.currentSlot \in 0 .. 29
           /\ (InSpecWindow(slotPrev.at) /\ WindowDay(slotPrev.at) = WindowDay(slotRes.at))
                  => slotPrev.currentSlot <= slotRes.currentSlot
           /\ (LocalMinute(slotRes.at) = 8 * 60 + 5) => slotRes.currentSlot = 0
           /\ (LocalMinute(slotRes.at) = 50) => slotRes.currentSlot = 29

\* the walk has stepped from 00:49 to 00:50 IST, which resolves to slot 29
C7_Witness ==
    /\ LocalMinute(slotRes.at) = 50
    /\ slotPrev.at + 1 = slotRes.at
    /\ slotRes.currentSlot = 29

(***************************************************************************)
(* SpecSelect: the selector evaluated, twice, on every (date, slot, n)     *)
(***************************************************************************)
SelInit ==
    /\ selIn \in [dateString : {FormatDate(AddDays(BaseDate, d)) : d \in 0 .. MaxDay},
                  slot : 0 .. (TOTAL_NOTIFICATIONS - 1),
                  n : 1 .. MaxCandidates]
    /\ selOut = <<>>
    /\ SlotIdle
    /\ PushIdle
    /\ LikeIdle
    /\ MoreIdle

\* lines 225-226 of GET evaluated on the inputs
SelectTip ==
    /\ Len(selOut) < 2
    /\ selOut' = Append(selOut, [seed |-> createSeed(selIn.dateString, selIn.slot),
                                 index |-> randomIndex(selIn.dateString, selIn.slot, selIn.n)])
    /\ UNCHANGED <<selIn, slotVars, pushVars, likeVars, moreVars>>

SelNext == SelectTip

SpecSelect == SelInit /\ [][SelNext]_vars

Init == PushInit /\ SlotIdle /\ SelIdle /\ LikeIdle /\ MoreIdle

Next ==
    \/ \E i \in Invs : Start(i)
    \/ \E i \in Invs : FindExisting(i)
    \/ \E i \in Invs : FetchTips(i)
    \/ \E i \in Invs : UpsertPush(i)
    \/ \E i \in Invs : FetchUsers(i)
    \/ \E i \in Invs : CompleteEmpty(i)
    \/ \E i \in Invs : SendOne(i)
    \/ \E i \in Invs : CompletePush(i)
    \/ \E i \in Invs : StoreThrows(i)
    \/ \E i \in Invs : HandleError(i)
    \/ AdvanceClock
    \/ PublishTip

Spec == Init /\ [][Next]_vars

\* invocation i entered the try block: it passed the secret and window checks
Dispatched(i) ==
    inv[i].pc # "idle" /\ inv[i].authorized /\ inv[i].resp.kind # "outOfWindow"

\* the recipients the send collaborator was called for by invocation i
SendsOf(i) == {u \in Users : inv[i].sentTo[u] # "none"}

\* invocation i had returned when invocation j started
InSequence(i, j) == i \in inv[j].after

\* i and j are the only invocations for their key, j after i, both returned
TwiceInSequence(i, j) ==
    /\ i # j
    /\ Dispatched(i) /\ Dispatched(j)
    /\ InvKey(i) = InvKey(j)
    /\ InSequence(i, j)
    /\ inv[j].pc = "done"
    /\ \A h \in Invs \ {i, j} : ~(Dispatched(h) /\ InvKey(h) = InvKey(i))

\* what the second of two sequential invocations must have done
SecondSkipped(i, j) ==
    LET row == dailyPush[InvKey(i)]
    IN  /\ inv[i].resp.kind \in {"success", "noUsers"}
        /\ row.status = "completed"
        /\ inv[j].resp = Resp("alreadySent", row.sentCount, row.errorCount, row.tipId)
        /\ row.sentCount = inv[i].sentCount
        /\ row.tipId = inv[i].tipToSend
        /\ SendsOf(j) = {}
        /\ ~inv[j].wrote

C2_AtMostOneSend ==
    \A k \in Keys : \A u \in Users :
        Cardinality({i \in Invs : Dispatched(i) /\ InvKey(i) = k
                                     /\ inv[i].sentTo[u] = "ok"}) <= 1

\* C3: once the row of a key is completed, no later step of any invocation
\* changes its status or sends again for that key.
C3_CompletedIsTerminal ==
    [][\A k \in Keys :
          dailyPush[k].status = "completed"
              => /\ dailyPush'[k].status = "completed"
                 /\ \A i \in Invs : InvKey(i) = k => inv'[i].sentTo = inv[i].sentTo]_vars

\* C6: an invocation at an IST minute after 01:00 and before 08:00 returns
\* the out-of-window skip at once: no error response, no DailyPush read or
\* write, no send.
C6_OutOfWindowSkips ==
    \A i \in Invs :
        (/\ inv[i].pc # "idle"
         /\ inv[i].authorized
         /\ LocalMinute(inv[i].at) > 60
         /\ LocalMinute(inv[i].at) < 480)
            => /\ inv[i].pc = "done"
               /\ inv[i].resp.kind = "outOfWindow"
               /\ ~inv[i].wrote
               /\ SendsOf(i) = {}

\* invocation i reached the send step: it called the send collaborator
ReachedSend(i) == Dispatched(i) /\ SendsOf(i) # {}

\* C9: for a fixed (date, slot), a retry that reaches the send step sends the
\* tip the earlier attempt sent, also when tips were published in between.
C9_SameTipEveryAttempt ==
    \A i, j \in Invs :
        (/\ ReachedSend(i) /\ ReachedSend(j)
         /\ InvKey(i) = InvKey(j)
         /\ InSequence(i, j))
            => inv[i].tipToSend = inv[j].tipToSend

(***************************************************************************)
(* SpecLike: requests to the tip action endpoint against one store         *)
(***************************************************************************)
LikeInit == LikeIdle /\ SlotIdle /\ SelIdle /\ PushIdle /\ MoreIdle

LikeNext ==
    \/ \E r \in Reqs : ReqStart(r)
    \/ \E r \in Reqs : FindTip(r)
    \/ \E r \in Reqs : FindUser(r)
    \/ \E r \in Reqs : CreateUser(r)
    \/ \E r \in Reqs : FindAction(r)
    \/ \E r \in Reqs : DeleteAction(r)
    \/ \E r \in Reqs : DecrementCounter(r)
    \/ \E r \in Reqs : CreateAction(r)
    \/ \E r \in Reqs : IncrementCounter(r)
    \/ \E r \in Reqs : LikeStoreThrows(r)
    \/ \E r \in Reqs : LikeCatch(r)
    \/ \E r \in Reqs : ShareStart(r)
    \/ \E r \in Reqs : ShareFindTip(r)
    \/ \E r \in Reqs : ShareFindUser(r)
    \/ \E r \in Reqs : ShareCreateUser(r)
    \/ \E r \in Reqs : ShareFindAction(r)
    \/ \E r \in Reqs : ShareCreateAction(r)
    \/ \E r \in Reqs : ShareIncrement(r)
    \/ \E r \in Reqs : ShareStoreThrows(r)
    \/ \E r \in Reqs : ShareCatch(r)

SpecLike == LikeInit /\ [][LikeNext]_vars

\* no request is in flight
Quiescent == \A r \in Reqs : req[r].pc \in {"idle", "done"}

ActionsOfKind(k) == {a \in actions : a[2] = k}

\* C10: after any interleaving of like toggles in which every store
\* operation succeeded, once no request is in flight likesCount equals the
\* number of like Actions of the tip.
C10_LikesCountMatchesActions ==
    (Quiescent /\ \A r \in Reqs : ~req[r].failed)
        => counts["like"] = Cardinality(ActionsOfKind("like"))

\* the like toggles of two users have both answered added, likesCount is 2
C10_Witness ==
    /\ Quiescent
    /\ \A r \in Reqs : ~req[r].failed
    /\ \E r, q \in Reqs :
          /\ req[r].user # req[q].user
          /\ req[r].kind = "like" /\ req[q].kind = "like"
          /\ req[r].resp = "added" /\ req[q].resp = "added"
    /\ counts["like"] = 2


\* C11: in every reachable state, the states between the two store writes of
\* one toggle and the state left by a failed second write included, each
\* counter of the tip equals the number of existing Actions of its kind.
C11_CountersMatchActions ==
    \A k \in ActionTypes : counts[k] = Cardinality(ActionsOfKind(k))

\* C12: no step of any request to either action endpoint removes an existing
\* share Action or lowers sharesCount; a share repeated by a user who already
\* shared leaves the Actions and the counter as they were.
C12_ShareNeverRemoved ==
    [][/\ \A a \in actions : a[2] = "share" => a \in actions'
       /\ counts'["share"] >= counts["share"]
       /\ \A r \in Reqs :
             (req[r].via = "share" /\ req'[r].resp = "alreadyShared")
                 => (actions' = actions /\ counts' = counts)]_vars

\* C13: at most one Action exists per (user, tip, kind) in every reachable
\* state, and a returned toggle answered added exactly when it created the
\* Action and removed exactly when it deleted one.
C13_OneActionTruthfulAnswer ==
    /\ \A a, b \in actions : (a[1] = b[1] /\ a[2] = b[2]) => a = b
    /\ \A r \in Reqs :
          (req[r].pc = "done" /\ req[r].via = "toggle")
              => /\ (req[r].resp = "added") <=> (req[r].did = "created")
                 /\ (req[r].resp = "removed") <=> (req[r].did = "deleted")



(***************************************************************************)
(* SpecPipe: the content pipeline, its handlers interleaved                *)
(***************************************************************************)
PipeInit ==
    /\ adminKey \in BOOLEAN
    /\ tipRows = <<>>
    /\ jobs = <<>>
    /\ gen = [i \in Gens |-> IdleGen]
    /\ enr = [e \in Enrs |-> IdleEnr]
    /\ bat = [b \in Bats |-> IdleBat]
    /\ feedOut = NoFeed
    /\ pipeFaults = 0
    /\ cronSecret \in BOOLEAN
    /\ pushNow = 1
    /\ pushTokens = [u \in Users |-> "none"]
    /\ published = 0
    /\ dailyPush = [k \in Keys |-> NoRow]
    /\ inv = [i \in Invs |-> IdleInv]
    /\ faults = 0
    /\ IdleOutsidePipe
    /\ SlotIdle
    /\ SelIdle
    /\ LikeIdle

PipeNext ==
    \/ \E i \in PipeGens : GenStart(i)
    \/ \E i \in PipeGens : GenCreateJob(i)
    \/ \E i \in PipeGens : GenAI(i)
    \/ \E i \in PipeGens : GenFailUpdate(i)
    \/ \E i \in PipeGens : GenCreateTip(i)
    \/ \E i \in PipeGens : GenCompleteUpdate(i)
    \/ \E i \in PipeGens : GenCatch(i)
    \/ \E i \in PipeGens : GenStoreThrows(i)
    \/ \E e \in PipeEnrs : EnrStart(e)
    \/ \E e \in PipeEnrs : EnrFind(e)
    \/ \E e \in PipeEnrs : EnrUpdate(e)
    \/ \E e \in PipeEnrs : EnrStoreThrows(e)
    \/ \E b \in Bats : BatStart(b)
    \/ \E b \in Bats : BatFind(b)
    \/ \E b \in Bats : BatEnrichOne(b)
    \/ \E b \in Bats : BatStoreThrows(b)
    \/ ViewTip
    \/ FeedQuery

SpecPipe == PipeInit /\ [][PipeNext]_vars



\* C14: no step of any handler, in any interleaving, changes a published Tip
\* back to draft (or to any other status).
C14_StatusNeverRegresses ==
    [][\A t \in 1 .. Len(tipRows) :
          tipRows[t].status = "published" => tipRows'[t].status = "published"]_vars

\* a tip that was already published (without an image) when the single-tip
\* enrichment read it has been updated by it and is still published
C14_Witness ==
    \E e \in Enrs :
        /\ enr[e].pc = "done"
        /\ enr[e].resp = "enriched"
        /\ enr[e].readStatus = "published"
        /\ tipRows[enr[e].tipId].status = "published"

\* C15: every tip of a returned feed page is published, and a tip created by
\* the generate stage is in a feed page only after an enrichment invocation
\* has processed it.
C15_FeedOnlyPublished ==
    \A k \in 1 .. Len(feedOut.items) :
        /\ feedOut.items[k].status = "published"
        /\ feedOut.items[k].jobId # 0 => feedOut.items[k].enriched

\* a feed page was returned that holds an enriched tip while another tip of
\* the same generate invocation, still a draft, was left out
C15_Witness ==
    /\ Len(feedOut.items) >= 1
    /\ \E t \in 1 .. Len(tipRows) :
          /\ tipRows[t].status = "draft"
          /\ \A k \in 1 .. Len(feedOut.items) : feedOut.items[k].id # t
          /\ \E k \in 1 .. Len(feedOut.items) : feedOut.items[k].id > t



\* the ids of the Tips that carry the Job id of generate invocation i
TipsOfJob(i) ==
    {t \in 1 .. Len(tipRows) : gen[i].jobId # 0 /\ tipRows[t].jobId = gen[i].jobId}

\* generate invocation i got past the AI call and has returned, with none of
\* its tip creations still in flight
GenReturned(i) ==
    /\ gen[i].pc = "done"
    /\ gen[i].pending = 0
    /\ JobOf(i).status # "absent"

\* what the generate stage leaves behind, by the result of the AI call
GenOutcome(i) ==
    IF gen[i].aiError \/ gen[i].aiTips = 0
    THEN /\ JobOf(i).status = "failed"
         /\ JobOf(i).errors
         /\ TipsOfJob(i) = {}
    ELSE /\ Cardinality(TipsOfJob(i)) = gen[i].aiTips
         /\ \A t \in TipsOfJob(i) :
                ~tipRows[t].enriched =>
                    /\ tipRows[t].status = "draft"
                    /\ ~tipRows[t].image
                    /\ ~tipRows[t].viewMore
         /\ JobOf(i).status = "completed"
         /\ JobOf(i).tipsCount = Cardinality(TipsOfJob(i))

JobTerminal == {"completed", "failed"}

\* C17: a generate invocation that created its Job has, when it returns,
\* written exactly one terminal status (completed or failed) to it, and a Job
\* that is completed or failed keeps its status in every later step, also
\* when tip persistence or a Job update throws.
C17_OneTerminalWrite ==
    [][\A i \in Gens :
          /\ JobOf(i).status \in JobTerminal => JobOf(i)'.status = JobOf(i).status
          /\ (gen'[i].pc = "done" /\ JobOf(i)'.status # "absent")
                => /\ JobOf(i)'.writes = 1
                   /\ JobOf(i)'.status \in JobTerminal]_vars



\* the caller presented a configured secret
SecretMatched(cred) ==
    \/ cronSecret /\ cred = "cron"
    \/ adminKey /\ cred = "admin"

\* C18: a scheduler-facing request gets past the authorization check, and so
\* to its first Job or Tip write, only when the shared secret is configured
\* and the caller's credential matches it (for enrich-tip: one of its two
\* configured keys).
C18_RejectedWithoutSecret ==
    /\ \A i \in Gens :
          (gen[i].pc # "idle" /\ gen[i].resp # "unauthorized")
              => (cronSecret /\ gen[i].cred = "cron")
    /\ \A e \in Enrs :
          (enr[e].pc # "idle" /\ enr[e].resp # "unauthorized")
              => SecretMatched(enr[e].cred)
    /\ \A b \in Bats :
          (bat[b].pc # "idle" /\ bat[b].resp # "unauthorized")
              => SecretMatched(bat[b].cred)



(***************************************************************************)
(* SpecLoop: one dispatch invocation from its ledger upsert on             *)
(***************************************************************************)
LoopInit ==
    /\ LoopIdle
    /\ IdleOutsideLoop
    /\ PushIdle
    /\ SlotIdle
    /\ SelIdle
    /\ LikeIdle

LoopNext ==
    \/ LoopUpsert
    \/ LoopFetchUsers
    \/ LoopCompleteEmpty
    \/ LoopSendOne
    \/ LoopComplete
    \/ LoopStoreThrows
    \/ LoopCatch

SpecLoop == LoopInit /\ [][LoopNext]_vars

HalfInit ==
    /\ HalfIdle
    /\ cronSecret \in BOOLEAN
    /\ pushNow = 1
    /\ pushTokens = [u \in Users |-> "none"]
    /\ published = 0
    /\ dailyPush = [k \in Keys |-> NoRow]
    /\ inv = [i \in Invs |-> IdleInv]
    /\ faults = 0
    /\ IdleOutsideHalf
    /\ SlotIdle
    /\ SelIdle
    /\ LikeIdle

HalfNext ==
    \/ \E i \in HalfInvs : HalfStart(i)
    \/ \E i \in HalfInvs : HalfFindExisting(i)
    \/ \E i \in HalfInvs : HalfFetchTips(i)
    \/ \E i \in HalfInvs : HalfUpsert(i)
    \/ \E i \in HalfInvs : HalfDeliver(i)
    \/ \E i \in HalfInvs : HalfThrows(i)
    \/ \E i \in HalfInvs : HalfCatch(i)
    \/ HalfTick

SpecHalf == HalfInit /\ [][HalfNext]_vars

\* C20: when the failure handler of an invocation that had set its row to
\* sending has run, the row of that invocation's own (date, slot) is no
\* longer in status sending, and no row of another key was changed by it.
C20_FailureMarksOwnRow ==
    [][\A i \in HalfInvs :
          (half[i].pc = "catch" /\ half[i].upserted /\ half'[i].pc = "done")
              => /\ halfRows'[half[i].slot] # "sending"
                 /\ \A k \in HalfKeys :
                       k # half[i].slot => halfRows'[k] = halfRows[k]]_vars


(***************************************************************************)
(* SpecFan: the send loop over every assignment of tokens to recipients    *)
(***************************************************************************)
FanInit ==
    /\ fan = IdleFan
    /\ fanTokens \in [Fans -> TokenKinds]
    /\ IdleOutsideFan
    /\ PushIdle
    /\ SlotIdle
    /\ SelIdle
    /\ LikeIdle

FanNext ==
    \/ FanRejectToken
    \/ FanSend
    \/ FanComplete

SpecFan == FanInit /\ [][FanNext]_vars

\* the entries of the error list that name recipient u
ErrorsFor(u) == {k \in 1 .. Len(fan.errors) : fan.errors[k] = u}

\* the recipients the loop has dealt with
FanSeen == {u \in Fans : u < fan.idx}

\* C21: a recipient whose token is empty or malformed is never passed to the
\* send call and adds exactly one to errorCount; when every send is ok the
\* result is sentCount = the valid tokens and errorCount = the others (3 and
\* 1 for 3 valid tokens and 1 malformed token).
C21_BadTokenNeverSent ==
    /\ \A u \in Fans :
          fanTokens[u] # "valid"
              => /\ fan.calls[u] = 0
                 /\ Cardinality(ErrorsFor(u)) = (IF u \in FanSeen THEN 1 ELSE 0)
    /\ fan.errorCount = Len(fan.errors)
    /\ ( /\ fan.pc = "done"
         /\ \A u \in Fans : fanTokens[u] = "valid" => fan.outcome[u] = "ok" )
          => /\ fan.resp.sentCount = Cardinality({u \in Fans : fanTokens[u] = "valid"})
             /\ fan.resp.errorCount = Cardinality({u \in Fans : fanTokens[u] # "valid"})

\* the scenario has run: 3 valid tokens, 1 malformed token, every send ok
C21_Witness ==
    /\ fan.pc = "done"
    /\ Cardinality({u \in Fans : fanTokens[u] = "valid"}) = 3
    /\ Cardinality({u \in Fans : fanTokens[u] = "malformed"}) = 1
    /\ \A u \in Fans : fanTokens[u] = "valid" => fan.outcome[u] = "ok"
    /\ \E u \in Fans : fanTokens[u] = "malformed" /\ fan.calls[u] = 0
    /\ fan.resp.sentCount = 3
    /\ fan.resp.errorCount = 1

\* C22: every recipient with a valid token gets exactly one send call; an
\* error ticket, a null ticket or an exception is recorded once against that
\* recipient, and no other recipient's send is skipped or repeated.
C22_OneSendPerRecipient ==
    /\ \A u \in Fans : fan.calls[u] <= 1
    /\ \A u \in FanSeen :
          fanTokens[u] = "valid"
              => /\ fan.calls[u] = 1
                 /\ Cardinality(ErrorsFor(u)) = (IF fan.outcome[u] = "ok" THEN 0 ELSE 1)
    /\ fan.pc \in {"complete", "done"} => FanSeen = Fans
    /\ fan.sentCount = Cardinality({u \in Fans : fan.outcome[u] = "ok"})

\* the loop has ended after one recipient's send threw, another's returned
\* an error ticket, and a later recipient's send was still made and ok
C22_Witness ==
    /\ fan.pc = "done"
    /\ \E u, v, w \in Fans :
          /\ u < w /\ v < w
          /\ fan.outcome[u] = "threw"
          /\ fan.outcome[v] \in {"error", "null"}
          /\ fan.outcome[w] = "ok"
          /\ fan.calls[u] = 1 /\ fan.calls[v] = 1 /\ fan.calls[w] = 1

C24_EnrichedTipSkipped ==
    [][\A e \in Enrs :
          /\ ( /\ enr[e].pc = "find"
               /\ enr'[e].pc # "find"
               /\ pipeFaults' = pipeFaults
               /\ enr[e].tipId <= Len(tipRows)
               /\ tipRows[enr[e].tipId].status = "published"
               /\ tipRows[enr[e].tipId].image )
                => /\ enr'[e].pc = "done"
                   /\ enr'[e].resp = "skipped"
                   /\ tipRows' = tipRows
          /\ enr'[e].resp = "skipped"
                => /\ enr'[e].imageFetch = "notCalled"
                   /\ enr'[e].linkFetch = "notCalled"]_vars

\* a single-tip enrichment has answered skipped for a tip that is published
\* with an image
C24_Witness ==
    \E e \in Enrs :
        /\ enr[e].pc = "done"
        /\ enr[e].resp = "skipped"
        /\ tipRows[enr[e].tipId].status = "published"
        /\ tipRows[enr[e].tipId].image
        /\ enr[e].imageFetch = "notCalled"

\* C25: the update of a single-tip enrichment that read a draft Tip answers
\* success and publishes the Tip whatever the image and link fetches ended
\* in, and a fetch that gave nothing leaves its field of the Tip as it was.
C25_DraftEnrichPublishes ==
    [][\A e \in Enrs :
          ( /\ enr[e].pc = "update"
            /\ enr[e].readStatus = "draft"
            /\ enr'[e].pc = "done"
            /\ pipeFaults' = pipeFaults )
              => LET t == enr[e].tipId
                 IN  /\ enr'[e].resp = "enriched"
                     /\ tipRows'[t].status = "published"
                     /\ enr'[e].imageFetch # "value"
                           => tipRows'[t].image = tipRows[t].image
                     /\ enr'[e].linkFetch # "value"
                           => tipRows'[t].viewMore = tipRows[t].viewMore]_vars

(***************************************************************************)
(* SpecWalk: feed walks over every table size, limit and category          *)
(***************************************************************************)
WalkInit ==
    /\ \E n \in 0 .. MaxWalkTips, limit \in WalkLimitParams, category \in WalkCategories :
          walk = [IdleWalk EXCEPT !.n = n, !.limit = limit, !.category = category]
    /\ IdleOutsideWalk
    /\ PushIdle
    /\ SlotIdle
    /\ SelIdle
    /\ LikeIdle

WalkNext == WalkPage

SpecWalk == WalkInit /\ [][WalkNext]_vars

\* C26: a walk of the feed from no cursor along the returned nextCursors
\* makes progress with every page that returns a nextCursor, returns at most
\* min(limit, 50) items per page, and when it has ended it has yielded every
\* published tip of the category exactly once, newest first.
C26_WalkYieldsEveryTip ==
    /\ (walk.pages > 0 /\ walk.pc = "walking") => walk.lastLen > 0
    /\ walk.maxLen <= Min(IF walk.limit = <<>> THEN 20 ELSE walk.limit[1], 50)
          \/ walk.maxLen = 0
    /\ walk.pc = "end" => walk.seen = WalkRowsFrom(walk.n, walk.category)

(***************************************************************************)
(* Concurrent generate invocations: the generate-tips GET handler alone,   *)
(* MaxConcurrentGen invocations interleaved at every store call.           *)
(***************************************************************************)
GenNext ==
    \/ \E i \in Gens : GenStart(i)
    \/ \E i \in Gens : GenCreateJob(i)
    \/ \E i \in Gens : GenAI(i)
    \/ \E i \in Gens : GenFailUpdate(i)
    \/ \E i \in Gens : GenCreateTip(i)
    \/ \E i \in Gens : GenCompleteUpdate(i)
    \/ \E i \in Gens : GenCatch(i)
    \/ \E i \in Gens : GenStoreThrows(i)

SpecGen == PipeInit /\ [][GenNext]_vars

\* C27: generate invocations that run concurrently create distinct Job
\* records; the Tips that carry the id of an invocation's Job are the Tips
\* that invocation created; and an invocation that has returned left its own
\* Job with one terminal write, the status of its own outcome and, when
\* completed, its own count of Tips.
C27_ConcurrentGenerates ==
    /\ \A i, j \in Gens :
           (i # j /\ gen[i].jobId # 0 /\ gen[j].jobId # 0) => gen[i].jobId # gen[j].jobId
    /\ \A i \in Gens : gen[i].jobId # 0 => gen[i].jobId \in 1 .. Len(jobs)
    /\ \A i \in Gens : Cardinality(TipsOfJob(i)) = gen[i].created
    /\ \A t \in 1 .. Len(tipRows) : \E i \in Gens : t \in TipsOfJob(i)
    /\ \A i \in Gens :
           GenReturned(i) =>
               /\ JobOf(i).status \in JobTerminal
               /\ JobOf(i).writes = 1
               /\ (JobOf(i).status = "completed") = (gen[i].resp = "success")
               /\ JobOf(i).status = "completed" => JobOf(i).tipsCount = gen[i].created

(***************************************************************************)
(* The half-hourly slot resolution, minute by minute over one IST day.     *)
(***************************************************************************)
DayInit ==
    /\ day = IdleDay
    /\ IdleOutsideDay
    /\ PushIdle
    /\ SlotIdle
    /\ SelIdle
    /\ LikeIdle

DayNext == DayResolve \/ DayFetchTips \/ DayTick

SpecDay == DayInit /\ [][DayNext]_vars

\* route.ts isWithinNotificationWindow (lines 103-105): 06:00-23:59
DayInWindow(m) == DayHour(m) >= START_HOUR_halfHourly /\ DayHour(m) <= END_HOUR_halfHourly

\* C28: in the half-hourly variant getSlotIndex maps the half hours from
\* 06:00 to 23:30 IST onto slots 0..29 in order (06:00 gives 0, 06:30 gives 1,
\* 23:30 gives 29), so every instant of the 06:00-23:59 window has a slot
\* index below TOTAL_SLOTS and a tip position it can send: with TOTAL_SLOTS
\* tips fetched the lookup finds a tip.
C28_WindowSlotsBelowTotal ==
    (day.pc # "clock" /\ DayInWindow(day.m)) =>
        /\ day.slot \in 0 .. TOTAL_SLOTS - 1
        /\ day.slot = (day.m - 60 * START_HOUR_halfHourly) \div 30
        /\ (day.m = END_HOUR_halfHourly * 60 + 30) => day.slot = TOTAL_SLOTS - 1
        /\ (day.pc = "fetched" /\ day.n = TOTAL_SLOTS) => day.found = "tip"

(***************************************************************************)
(* Lazy user creation by the action, interests and push-token endpoints.   *)
(***************************************************************************)
UsrInit ==
    /\ UsrIdle
    /\ IdleOutsideUsr
    /\ PushIdle
    /\ SlotIdle
    /\ SelIdle
    /\ LikeIdle

UsrNext ==
    \/ \E c \in UserCalls : CallStart(c)
    \/ \E c \in UserCalls : CallFind(c)
    \/ \E c \in UserCalls : CallWrite(c)

SpecUser == UsrInit /\ [][UsrNext]_vars

\* the User rows made for client id k
RowsOf(k) ==
    {row \in userRows :
        row.id = ClientId(k) \/ row.email \in {AnonymousEmail(k), DeviceEmail(k)}}

\* the calls ran one after the other: every call started when all the calls
\* before it had returned
Sequential ==
    \A c \in UserCalls :
        ucall[c].pc # "idle" => ucall[c].after = {d \in UserCalls : d < c}

\* C29: lazy user creation is create-if-absent per client-supplied user_id:
\* after any sequence of calls to the action, interests and push-token
\* endpoints with the same user_id at most one User row exists for it, and
\* every call after the first finds the row the first call created: it
\* creates none and does not fail.
C29_CreateIfAbsent ==
    Sequential =>
        /\ \A k \in ClientIds : Cardinality(RowsOf(k)) <= 1
        /\ \A c \in UserCalls : ucall[c].pc = "done" => ucall[c].resp = "success"
        /\ \A c, d \in UserCalls :
               (c \in ucall[d].after /\ ucall[d].pc = "done"
                    /\ ucall[c].user_id = ucall[d].user_id) => ~ucall[d].created

\* invocation i takes its upsert step
UpsertStep(i) == inv[i].pc = "upsert" /\ inv'[i].pc = "findUsers"

\* invocation i makes a send call
SendStep(i) == inv[i].pc = "send" /\ inv'[i] # inv[i]

\* C30: in every dispatch invocation the DailyPush row of its (date, slot) is
\* persisted with status sending and the selected tip id before the first
\* send call is made: the upsert leaves the row in status sending with the
\* tip the invocation selected, and no send for a key happens while the
\* ledger has no row for that key.
C30_RowBeforeSend ==
    [][\A i \in Invs :
           /\ UpsertStep(i) =>
                  /\ dailyPush'[InvKey(i)].status = "sending"
                  /\ dailyPush'[InvKey(i)].tipId = inv[i].tipToSend
           /\ SendStep(i) => dailyPush[InvKey(i)].status # "absent"]_vars

(***************************************************************************)
(* The uniqueness pass on every array of at most MaxObjectLen tips.        *)
(***************************************************************************)
DedupInit ==
    /\ \E object \in AiObjects : dedup = [IdleDedup EXCEPT !.object = object]
    /\ IdleOutsideDedup
    /\ PushIdle
    /\ SlotIdle
    /\ SelIdle
    /\ LikeIdle

DedupNext == DedupStep \/ DedupReturn

SpecDedup == DedupInit /\ [][DedupNext]_vars

\* two tips share a topic slug, a primary technology or a headline pattern,
\* compared case-insensitively
ShareKey(a, b) ==
    \/ toLowerCase(a.unique_topic) = toLowerCase(b.unique_topic)
    \/ toLowerCase(a.primary_tech) = toLowerCase(b.primary_tech)
    \/ toLowerCase(a.headline_pattern) = toLowerCase(b.headline_pattern)

\* C31: the uniqueness pass returns a subsequence of the AI's tips, in input
\* order, in which no two tips share a topic slug, a primary technology or a
\* headline pattern (case-insensitively), and a tip is dropped only when an
\* earlier kept tip carries one of its keys: the first tip carrying a key is
\* the one kept.
C31_DedupKeepsFirst ==
    dedup.pc = "done" =>
        LET kept == dedup.validTips
        IN  /\ \A a, b \in 1 .. Len(kept) :
                   a < b => /\ kept[a] < kept[b]
                            /\ ~ShareKey(dedup.object[kept[a]], dedup.object[kept[b]])
            /\ \A a \in 1 .. Len(kept) : kept[a] \in 1 .. Len(dedup.object)
            /\ \A j \in 1 .. Len(dedup.object) :
                   (\A a \in 1 .. Len(kept) : kept[a] # j) =>
                       \E a \in 1 .. Len(kept) :
                           kept[a] < j /\ ShareKey(dedup.object[kept[a]], dedup.object[j])

(***************************************************************************)
(* One batch enrichment over every number of drafts, in both handlers.     *)
(***************************************************************************)
GrpInit ==
    /\ \E variant \in BatchVariants, total \in 0 .. MaxDrafts :
           batch = [IdleBatch EXCEPT !.variant = variant, !.total = total]
    /\ IdleOutsideGrp
    /\ PushIdle
    /\ SlotIdle
    /\ SelIdle
    /\ LikeIdle

GrpNext ==
    \/ BatchMap
    \/ \E j \in Drafts : BatchItemFetched(j)
    \/ \E j \in Drafts : BatchItemSettles(j)
    \/ BatchAwaited
    \/ BatchDelay
    \/ BatchReturn

SpecBatch == GrpInit /\ [][GrpNext]_vars

\* C32: in batch enrichment a failed update of one tip does not stop the
\* remaining tips: no draft is attempted twice, and when the invocation has
\* answered, every draft fetched was attempted exactly once and has settled,
\* and the reported enriched + failed equals total, the number of drafts.
C32_EveryDraftAttemptedOnce ==
    /\ \A j \in Drafts : batch.started[j] <= 1
    /\ batch.pc = "done" =>
           /\ batch.resp.kind \in {"noDrafts", "batchDone"}
           /\ \A j \in Drafts :
                  IF j <= batch.total
                  THEN batch.started[j] = 1 /\ batch.item[j] \in Settled
                  ELSE batch.started[j] = 0
           /\ batch.resp.total = batch.total
           /\ batch.resp.enriched + batch.resp.failed = batch.resp.total
           /\ batch.resp.failed = Cardinality({j \in Drafts : batch.item[j] = "rejected"})

\* the grouped handler answered for 7 drafts after the first draft's update
\* failed: a draft of the same slice and the drafts of later slices were
\* still enriched
C32_Witness ==
    /\ batch.pc = "done"
    /\ batch.variant = "grouped"
    /\ batch.total = 7
    /\ batch.item[1] = "rejected"
    /\ batch.item[2] = "fulfilled"
    /\ batch.item[4] = "fulfilled"
    /\ batch.item[7] = "fulfilled"
    /\ batch.resp.failed >= 1
    /\ batch.resp.enriched + batch.resp.failed = 7

\* the group of batchSize consecutive drafts that draft j belongs to
GroupOf(j) == (j - 1) \div batchSize

\* C33: in one batch-enrichment invocation drafts are processed in
\* consecutive groups of at most 3: at no time are more than 3 items in
\* flight, and no item of a group has started before every item of the
\* previous groups has settled.
C33_GroupsOfThree ==
    /\ Cardinality(InFlight(batch)) <= batchSize
    /\ \A j, k \in Drafts :
           (GroupOf(k) < GroupOf(j) /\ batch.started[j] > 0) => batch.item[k] \in Settled

(***************************************************************************)
(* The bulk send over every list of at most MaxBulkUsers users.            *)
(***************************************************************************)
BulkInit ==
    /\ \E len \in 0 .. MaxBulkUsers : \E users \in [1 .. len -> BulkTokenKinds] :
           bulk = [IdleBulk EXCEPT !.users = users]
    /\ IdleOutsideBulk
    /\ PushIdle
    /\ SlotIdle
    /\ SelIdle
    /\ LikeIdle

BulkNext == BulkStart \/ BulkSendChunk \/ BulkReturn \/ BulkAnswer

SpecBulk == BulkInit /\ [][BulkNext]_vars

\* the number of messages in the chunks whose send did not throw
DeliveredCount ==
    Cardinality({k \in 1 .. Len(bulk.messages) :
                    \E c \in 1 .. ChunkCount(bulk.messages) :
                        /\ c \notin bulk.threw
                        /\ bulk.attempts[c] = 1
                        /\ (c - 1) * ChunkLimit < k /\ k <= c * ChunkLimit})

\* C34: sendBulkPushNotifications removes malformed tokens before sending
\* and attempts every chunk even when an earlier chunk's send throws; it
\* returns tickets only for the chunks that were sent successfully, so the
\* number of tickets never exceeds the number of valid-token payloads.
C34_BulkSendsEveryChunk ==
    /\ \A k \in 1 .. Len(bulk.sent) : bulk.sent[k] = "valid"
    /\ Len(bulk.tickets) = DeliveredCount
    /\ Len(bulk.tickets) <= Len(FilterSeq(bulk.payloads, {"valid"}))
    /\ bulk.pc \in {"answer", "done"} =>
           /\ bulk.resp.kind # "error"
           /\ \A c \in 1 .. ChunkCount(bulk.messages) : bulk.attempts[c] = 1
           /\ bulk.sent = bulk.messages

\* five users, one with a malformed token and one with none: the first of
\* the two chunks threw, the second was still sent, and the tickets are the
\* second chunk's alone
C34_Witness ==
    /\ bulk.pc = "done"
    /\ Len(bulk.users) = 5
    /\ Len(bulk.payloads) = 4
    /\ Len(bulk.messages) = 3
    /\ bulk.threw = {1}
    /\ bulk.attempts = <<1, 1>>
    /\ Len(bulk.tickets) = 1
    /\ bulk.resp.sent + bulk.resp.errors = 1

\* C35: a Tip's likesCount, savesCount and sharesCount are never negative in
\* any reachable state, also while concurrent toggles by the same user on
\* the same tip are interleaved between their Action write and their counter
\* write.
C35_CountersNeverNegative ==
    \A k \in ActionTypes : counts[k] >= 0

\* invocation i writes the completing update after its send loop
CompleteStep(i) == inv[i].pc = "complete" /\ inv'[i].pc = "done"

\* C36: for every completed DailyPush row the stored tipId and tipCount,
\* which later skipped responses report, are the tip and the candidate count
\* of the attempt that sent and completed the row, also when that attempt
\* was a retry of an earlier failed or interrupted attempt.
C36_CompletedRowHoldsSentTip ==
    [][\A i \in Invs :
           CompleteStep(i) =>
               /\ dailyPush'[InvKey(i)].status = "completed"
               /\ dailyPush'[InvKey(i)].tipId = inv[i].tipToSend
               /\ dailyPush'[InvKey(i)].tipCount = inv[i].n]_vars

(***************************************************************************)
(* Concurrent single-tip enrichments: the enrich-tip POST handler alone,   *)
(* MaxConcurrentEnrich invocations interleaved at every store call, on a   *)
(* store that holds the draft Tip of a completed Job.                      *)
(***************************************************************************)
EnrichInit ==
    /\ adminKey \in BOOLEAN
    /\ cronSecret \in BOOLEAN
    /\ tipRows = <<DraftTip(1)>>
    /\ jobs = <<[NoJob EXCEPT !.status = "completed", !.tipsCount = 1, !.writes = 1]>>
    /\ gen = [i \in Gens |-> IdleGen]
    /\ enr = [e \in Enrs |-> IdleEnr]
    /\ bat = [b \in Bats |-> IdleBat]
    /\ feedOut = NoFeed
    /\ pipeFaults = 0
    /\ pushNow = 1
    /\ pushTokens = [u \in Users |-> "none"]
    /\ published = 0
    /\ dailyPush = [k \in Keys |-> NoRow]
    /\ inv = [i \in Invs |-> IdleInv]
    /\ faults = 0
    /\ IdleOutsidePipe
    /\ SlotIdle
    /\ SelIdle
    /\ LikeIdle

EnrichNext ==
    \/ \E e \in Enrs : EnrStart(e)
    \/ \E e \in Enrs : EnrFind(e)
    \/ \E e \in Enrs : EnrUpdate(e)
    \/ \E e \in Enrs : EnrStoreThrows(e)

SpecEnrich == EnrichInit /\ [][EnrichNext]_vars

\* C37: once a Tip has a non-null image no enrichment invocation sets it back
\* to null: when two single-tip enrichments of the same tip overlap and one
\* fetches an image while the other's fetch fails, the tip still has the
\* image after both finish.
C37_ImageNeverUnset ==
    [][\A t \in 1 .. Len(tipRows) : tipRows[t].image => tipRows'[t].image]_vars

\* C38 as stated: a Job whose status is failed has no Tips tagged with its
\* id: when persisting the generated tips fails part-way, no draft Tip of
\* that Job remains in the store.
C38_FailedJobHasNoTips ==
    \A i \in Gens : JobOf(i).status = "failed" => TipsOfJob(i) = {}

\* C38 (amended): a Job that is failed because the AI call gave an error or
\* no tips has no Tips tagged with its id; a Job that is failed after
\* persisting had begun keeps the Tips that were created, each tagged with
\* its id, at most one per tip the AI returned.
C38_FailedJobKeepsCreatedTips ==
    \A i \in Gens :
        JobOf(i).status = "failed" =>
            /\ (gen[i].aiError \/ gen[i].aiTips = 0) => TipsOfJob(i) = {}
            /\ Cardinality(TipsOfJob(i)) = gen[i].created
            /\ gen[i].created <= gen[i].aiTips

\* the AI returned two tips, one create succeeded and the other threw: the
\* Job is failed and one Tip of the Job remains
C38_Witness ==
    \E i \in Gens :
        /\ JobOf(i).status = "failed"
        /\ gen[i].pc = "done"
        /\ gen[i].pending = 0
        /\ gen[i].aiTips = 2
        /\ Cardinality(TipsOfJob(i)) = 1

(***************************************************************************)
(* The half-hourly dispatch with tip identities, from 06:00 on.            *)
(***************************************************************************)
ShiftInit ==
    /\ \E status \in [DayTips -> {"draft", "published"}] :
           shift = [IdleShift EXCEPT !.status = status]
    /\ IdleOutsideShift
    /\ PushIdle
    /\ SlotIdle
    /\ SelIdle
    /\ LikeIdle

ShiftNext ==
    \/ \E k \in DayTips : ShiftPublish(k)
    \/ ShiftInvoke
    \/ ShiftTick

SpecShift == ShiftInit /\ [][ShiftNext]_vars

\* C39: in the slot-indexed dispatch variant, within one date no tip is sent
\* under two different slots: each of the day's published tips is pushed at
\* most once, also when a draft created earlier in the day is published
\* between two slot invocations.
C39_NoTipUnderTwoSlots ==
    \A s1, s2 \in ShiftSlots :
        (s1 # s2 /\ shift.pushed[s1] # 0) => shift.pushed[s1] # shift.pushed[s2]

\* C40: the single-tip read endpoint never returns a draft Tip and never
\* increments a draft Tip's view counter: a tip is readable by id only once
\* it is published, like the feed.
C40_DraftNeverViewed ==
    [][\A t \in 1 .. Len(tipRows) :
           tipRows[t].status = "draft" => tipRows'[t].views = tipRows[t].views]_vars

=============================================================================
